---- MODULE Spec2Model ----
(***************************************************************************)
(* A model of the conversation session of content-gap-crew:                *)
(* apps/api/app/routers/conversations.py, conversation_ws.                 *)
(*                                                                         *)
(* One WebSocket connection runs two cooperating coroutines on one asyncio *)
(* loop: the receive loop (the body of conversation_ws) and at most one    *)
(* Run task (_run_crew).  The blocking crew.kickoff runs on an executor    *)
(* thread.  Every action below is the code between two suspension points   *)
(* (awaits) of one coroutine, so TLC explores every interleaving the       *)
(* event loop can produce.                                                 *)
(***************************************************************************)
EXTENDS Integers, Sequences, FiniteSets, TLC

\* ---------------------------------------------------------------- bounds
MaxInbound == 2      \* frames the client sends on one connection
MaxEvents == 1       \* agent_message events one executor invocation yields
MaxStored == 2       \* entries of the stored transcript replayed on connect
MaxLines == 5        \* narration lines one executor invocation reads
MaxTasks == 3        \* tasks of a plan given to the memory injection
MaxStreams == 2      \* concurrent GET /runs/{id}/stream requests for one run
MaxServers == 2      \* configured MCP servers

\* questionId absent from the inbound frame: data.get("questionId") is None
AbsentQ == 0

VARIABLES
    rlpc,        \* receive loop: the await it is suspended at
    cur,         \* the frame the receive loop is handling (data, content)
    nrecv,       \* frames received so far
    naccepted,   \* frames received that passed the test for being persisted
    runpc,       \* Run task: the await it is suspended at ("none": run_task is None)
    askSite,     \* which call of _ask_user is in progress
    qid,         \* q_id of the _ask_user call in progress
    nextQ,       \* questions asked so far (q_id's are fresh: 1, 2, ...)
    pending,     \* pending_questions: q_id -> future
    askResult,   \* what the last _ask_user call returned
    skillsPicked,\* selected_skills is non-empty
    convStatus,  \* Conversation.status in the store
    title,       \* Conversation.title in the store
    messages,    \* Conversation.messages in the store (the transcript)
    sent,        \* what has been sent to the client, in order
    leadAgent,   \* lead_agent_config is not None
    runs,        \* Run documents created on this connection: their status
    activeRuns,  \* Run tasks created and not yet finished
    outcome,     \* how the last Run task ended
    worker,      \* the executor thread running crew.kickoff
    nevents,     \* agent_message events relayed in the current invocation
    evt,         \* the executor event whose append the relay awaits
    mcp,         \* the MCPManager of the current Run
    cancelReq,   \* run_task.cancel() was called and is not yet delivered
    rpos         \* replay: index of the next stored entry

sessionVars == <<rlpc, cur, nrecv, naccepted, runpc, askSite, qid, nextQ, pending, askResult,
          skillsPicked, convStatus, title, messages, sent, leadAgent, runs,
          activeRuns, outcome, worker, nevents, evt, mcp, cancelReq, rpos>>

\* ------------------------------------------ state outside the session
VARIABLES
    gpc,            \* run_with_streaming: where the generator is suspended
    yielded,        \* the events the generator has yielded, in order
    policy,         \* a memory policy with its agent is configured
    lastAgent,      \* last_agent
    capturingFinal, \* capturing_final
    finalLines,     \* final_lines
    emittedHashes,  \* emitted_hashes
    taskIndex,      \* task_index
    nlines,         \* narration lines read from stream_queue so far
    completed,      \* history: how often each Final Answer block was completed
    fromMemory      \* history: final_lines holds a line that was read while the
                    \* memory agent was the speaking agent

runnerVars == <<gpc, yielded, policy, lastAgent, capturingFinal, finalLines,
                emittedHashes, taskIndex, nlines, completed, fromMemory>>

VARIABLES
    ipc,            \* _inject_memory_tasks: "in" before the call, "out" after it
    tasksIn,        \* tasks
    memoryAgentId,  \* memory_agent_id (<<>>: None)
    injected        \* what the call returned

injectVars == <<ipc, tasksIn, memoryAgentId, injected>>

VARIABLES
    apc,            \* plan assembly: the step it is at
    via,            \* "ws": the conversation session, "rest": POST /runs
    rawPlan,        \* plan (agents: identifiers, tasks: name, agent_id, order)
    leadId,         \* the _id of lead_agent_config (NoId: None)
    allAgents,      \* the agent documents sanity.list_agents_full() returned
    memoryPolicy,   \* a memory policy naming the memory agent is enabled
    resolvedIds,    \* resolved_ids / resolved_agent_ids
    plannedAgents,  \* planned_agents (their ids)
    plannedTasks,   \* planned_tasks
    createdRuns     \* the planned crews sanity.create_run was called for

planVars == <<apc, via, rawPlan, leadId, allAgents, memoryPolicy, resolvedIds,
              plannedAgents, plannedTasks, createdRuns>>

VARIABLES
    runStatus,      \* the status of the Run document of a planned run
    plannedRun,     \* request.app.state.planned_runs holds the run
    awaitingInput,  \* planned_run["awaiting_input"]
    spc,            \* each GET /runs/{id}/stream request: the step it is at
    snap            \* each request's run.status, as sanity.get_run returned it

restVars == <<runStatus, plannedRun, awaitingInput, spc, snap>>

VARIABLES
    mpc,            \* _run_crew from the MCP setup on: the step it is at
    mcpConfigs,     \* mcp_configs: the transport of each configured server
    mcur,           \* the server connect_servers / disconnect_all is at
    connections,    \* MCPManager._connections (the servers registered)
    alive,          \* the servers whose subprocess is running
    taskCancel      \* run_task.cancel(): "no", "requested", "delivered"

mcpVars == <<mpc, mcpConfigs, mcur, connections, alive, taskCancel>>

VARIABLES
    qpc,              \* the routing of one accepted user message: the step it is at
    message,          \* content, the text of the user message
    activeCrewAgents, \* active_crew_agents
    leadAgentConfig,  \* lead_agent_config
    questionPending,  \* pending_questions is not empty
    runInFlight,      \* run_task and not run_task.done()
    responder,        \* mentioned or lead_agent_config
    replySent,        \* the quick replies streamed to the client
    replyStored       \* the quick replies appended to the transcript

replyVars == <<qpc, message, activeCrewAgents, leadAgentConfig, questionPending,
               runInFlight, responder, replySent, replyStored>>

VARIABLES
    bpc,              \* the context of a new Run: "read" before it is convContext
    conv,             \* the Conversation document get_conversation returns
    convContext             \* conversation_context

ctxVars == <<bpc, conv, convContext>>

VARIABLES
    wpc,              \* run_kickoff on the worker thread: where it is
    buffer,           \* StreamToQueue._buffer
    ready,            \* the callbacks call_soon_threadsafe has queued on the loop
    streamQueue,      \* stream_queue
    kickoffResult,    \* how crew.kickoff ended: "returned" or "raised"
    kickoffFuture,    \* kickoff_future: "pending", or how it is done
    lpc,              \* run_with_streaming: "loop", "await" after it, "done"
    terminal,         \* the terminal event the generator has yielded
    nwrites,          \* the calls of write() so far
    written,          \* history: everything the worker has written
    processed         \* history: the lines the parsing loop has dequeued

bridgeVars == <<wpc, buffer, ready, streamQueue, kickoffResult, kickoffFuture, lpc,
                terminal, nwrites, written, processed>>

extVars == <<runnerVars, injectVars, planVars, restVars, mcpVars, replyVars, ctxVars,
             bridgeVars>>

\* what each subsystem leaves alone
notRunner == <<injectVars, planVars, restVars, mcpVars, replyVars, ctxVars, bridgeVars>>

notInject == <<runnerVars, planVars, restVars, mcpVars, replyVars, ctxVars, bridgeVars>>

notPlan == <<runnerVars, injectVars, restVars, mcpVars, replyVars, ctxVars, bridgeVars>>

notRest == <<runnerVars, injectVars, planVars, mcpVars, replyVars, ctxVars, bridgeVars>>

notMcp == <<runnerVars, injectVars, planVars, restVars, replyVars, ctxVars, bridgeVars>>

notReply == <<runnerVars, injectVars, planVars, restVars, mcpVars, ctxVars, bridgeVars>>

notCtx == <<runnerVars, injectVars, planVars, restVars, mcpVars, replyVars, bridgeVars>>

notBridge == <<runnerVars, injectVars, planVars, restVars, mcpVars, replyVars, ctxVars>>

vars == <<sessionVars, extVars>>

\* nothing but the session is running
RunnerOff ==
    /\ gpc = "off"
    /\ yielded = <<>>
    /\ policy = FALSE
    /\ lastAgent = <<>>
    /\ capturingFinal = FALSE
    /\ finalLines = <<>>
    /\ emittedHashes = {}
    /\ taskIndex = 0
    /\ nlines = 0
    /\ completed = <<>>
    /\ fromMemory = FALSE

InjectOff ==
    /\ ipc = "off"
    /\ tasksIn = <<>>
    /\ memoryAgentId = <<>>
    /\ injected = <<>>

PlanOff ==
    /\ apc = "off"
    /\ via = "ws"
    /\ rawPlan = [agents |-> {}, tasks |-> <<>>]
    /\ leadId = <<>>
    /\ allAgents = <<>>
    /\ memoryPolicy = FALSE
    /\ resolvedIds = {}
    /\ plannedAgents = <<>>
    /\ plannedTasks = <<>>
    /\ createdRuns = <<>>

RestOff ==
    /\ runStatus = "none"
    /\ plannedRun = FALSE
    /\ awaitingInput = FALSE
    /\ spc = <<>>
    /\ snap = <<>>

McpOff ==
    /\ mpc = "off"
    /\ mcpConfigs = <<>>
    /\ mcur = 0
    /\ connections = {}
    /\ alive = {}
    /\ taskCancel = "no"

\* None, for an agent configuration
NoAgent == [id |-> <<>>, name |-> <<>>, role |-> <<>>]

ReplyOff ==
    /\ qpc = "off"
    /\ message = <<>>
    /\ activeCrewAgents = <<>>
    /\ leadAgentConfig = NoAgent
    /\ questionPending = FALSE
    /\ runInFlight = FALSE
    /\ responder = NoAgent
    /\ replySent = <<>>
    /\ replyStored = <<>>

CtxOff ==
    /\ bpc = "off"
    /\ conv = [found |-> FALSE, lastRunSummary |-> <<>>, messages |-> <<>>]
    /\ convContext = [summary |-> <<>>, lines |-> <<>>]

\* nothing but the session is running
BridgeOff ==
    /\ wpc = "off"
    /\ buffer = <<>>
    /\ ready = <<>>
    /\ streamQueue = <<>>
    /\ kickoffResult = "none"
    /\ kickoffFuture = "pending"
    /\ lpc = "off"
    /\ terminal = "none"
    /\ nwrites = 0
    /\ written = <<>>
    /\ processed = <<>>

ExtIdle ==
    RunnerOff /\ InjectOff /\ PlanOff /\ RestOff /\ McpOff /\ ReplyOff /\ CtxOff
        /\ BridgeOff

\* ------------------------------------------------------------- contents
SP == " "

\* the text of the k-th frame: a frame differs from the one before it
FrameText(k) == IF k % 2 = 1 THEN <<"a">> ELSE <<"b">>

\* the raw content strings a client sends next, as character sequences
RawContents ==
    { <<>>, <<SP>>, FrameText(nrecv + 1), <<SP>> \o FrameText(nrecv + 1) \o <<SP>> }

RECURSIVE LStrip(_)
LStrip(s) == IF s # <<>> /\ Head(s) = SP THEN LStrip(Tail(s)) ELSE s

RECURSIVE RStrip(_)
RStrip(s) ==
    IF s # <<>> /\ s[Len(s)] = SP THEN RStrip(SubSeq(s, 1, Len(s) - 1)) ELSE s

\* str.strip()
Strip(s) == RStrip(LStrip(s))

NoFrame == [type |-> "none", content |-> <<>>, qid |-> AbsentQ]

EphemeralTypes_NoSystem == {"thinking", "tool_call", "tool_result", "status"}

\* _ephemeral_ws_types
EphemeralTypes == {"thinking", "tool_call", "tool_result", "status", "system"}

\* ------------------------------------------------------ store and socket
Entry(sender, type, content) ==
    [sender |-> sender, type |-> type, content |-> content, timestamp |-> "now"]

\* sanity.append_message
AppendMessage(sender, type, content) ==
    messages' = Append(messages, Entry(sender, type, content))

Out(type, content, q) == [type |-> type, content |-> content, qid |-> q]

\* send(msg)
Send(type, content, q) == sent' = Append(sent, Out(type, content, q))

\* ------------------------------------------------------ pending questions
Future(st, val) == [st |-> st, val |-> val]

NoPending == [q \in {} |-> Future("waiting", <<>>)]

\* the questions whose future is not done
Waiting == {q \in DOMAIN pending : pending[q].st = "waiting"}

Pop_Keep(q) == pending

\* pending_questions.pop(q, None)
Pop(q) == [x \in DOMAIN pending \ {q} |-> pending[x]]

SetResult_Again(qs, content) ==
    [x \in DOMAIN pending |->
        IF x \in qs THEN Future("result", content) ELSE pending[x]]

\* future.set_result(content) on every future of qs that is not done
SetResult(qs, content) ==
    [x \in DOMAIN pending |->
        IF x \in qs /\ pending[x].st = "waiting"
        THEN Future("result", content) ELSE pending[x]]

CancelAll_None == pending

\* future.cancel() on every future that is not done
CancelAll ==
    [x \in DOMAIN pending |->
        IF pending[x].st = "waiting" THEN Future("cancelled", <<>>) ELSE pending[x]]

ResolveTargets_NoFallback(q) ==
    IF q # AbsentQ /\ q \in DOMAIN pending THEN {q} ELSE {}

\* the futures an inbound frame with questionId q resolves: the matching one,
\* else all of them
ResolveTargets(q) ==
    IF q # AbsentQ /\ q \in DOMAIN pending THEN {q} ELSE DOMAIN pending

RunInFlight_Never == FALSE

\* run_task and not run_task.done()
RunInFlight == runpc \notin {"none", "done", "cancelled"}

\* ---------------------------------------------------------- receive loop
FrameTypes == {"user_message", "answer", "ping", "other", "invalid_json"}

\* the questionId a client may put in a frame: none, the id of a question it was
\* sent, or an id no question carries
ClientQids == {AbsentQ} \cup (1..nextQ) \cup {-1}

\* (msg_type in ("user_message", "answer")) and content
ShouldPersist(type, content) ==
    type \in {"user_message", "answer"} /\ content # <<>>

\* raw = await websocket.receive_text() ... up to the call of append_message
Receive ==
    /\ rlpc = "recv"
    /\ nrecv < MaxInbound
    /\ \E t \in FrameTypes, raw \in RawContents, q \in ClientQids :
        /\ (t \in {"ping", "invalid_json"} => raw = <<>>)
        /\ (~ShouldPersist(t, Strip(raw)) => q = AbsentQ)
        /\ cur' = [type |-> t, content |-> Strip(raw), qid |-> q]
        /\ nrecv' = nrecv + 1
        /\ naccepted' = IF t # "ping" /\ ShouldPersist(t, Strip(raw))
                        THEN naccepted + 1 ELSE naccepted
        /\ IF t = "invalid_json"
           THEN Send("error", <<"Invalid JSON">>, AbsentQ) /\ rlpc' = "recv"
           ELSE /\ sent' = sent
                /\ rlpc' = IF t # "ping" /\ ShouldPersist(t, Strip(raw))
                           THEN "persist" ELSE "recv"
    /\ UNCHANGED <<runpc, askSite, qid, nextQ, pending, askResult, skillsPicked,
                   convStatus, title, messages, leadAgent, runs, activeRuns,
                   outcome, worker, nevents, evt, mcp, cancelReq, rpos>>
    /\ UNCHANGED extVars

Persist_NoAppend ==
    /\ rlpc = "persist"
    /\ rlpc' = IF cur.type = "user_message" THEN "title" ELSE "route"
    /\ UNCHANGED <<cur, nrecv, naccepted, runpc, askSite, qid, nextQ, pending,
                   askResult, skillsPicked, convStatus, title, messages, sent,
                   leadAgent, runs, activeRuns, outcome, worker, nevents, evt, mcp,
                   cancelReq, rpos>>
    /\ UNCHANGED extVars

\* await sanity.append_message(... the user message ...)
Persist ==
    /\ rlpc = "persist"
    /\ AppendMessage("user",
                     IF cur.type = "answer" THEN "answer" ELSE "message",
                     cur.content)
    /\ rlpc' = IF cur.type = "user_message" THEN "title" ELSE "route"
    /\ UNCHANGED <<cur, nrecv, naccepted, runpc, askSite, qid, nextQ, pending, askResult,
                   skillsPicked, convStatus, title, sent, leadAgent, runs,
                   activeRuns, outcome, worker, nevents, evt, mcp, cancelReq, rpos>>
    /\ UNCHANGED extVars

\* the title update from the first real message
Title ==
    /\ rlpc = "title"
    /\ title' = IF title \in {"", "New Conversation"} THEN "set" ELSE title
    /\ rlpc' = "route"
    /\ UNCHANGED <<cur, nrecv, naccepted, runpc, askSite, qid, nextQ, pending, askResult,
                   skillsPicked, convStatus, messages, sent, leadAgent, runs,
                   activeRuns, outcome, worker, nevents, evt, mcp, cancelReq, rpos>>
    /\ UNCHANGED extVars

\* the routing of a persisted frame: pending question, quick reply, or new Run
Route ==
    /\ rlpc = "route"
    /\ IF DOMAIN pending # {}
       THEN /\ pending' = SetResult(ResolveTargets(cur.qid), cur.content)
            /\ rlpc' = "recv"
            /\ UNCHANGED <<runpc, activeRuns>>
       ELSE IF RunInFlight
       THEN /\ rlpc' = IF leadAgent THEN "reply" ELSE "recv"
            /\ UNCHANGED <<pending, runpc, activeRuns>>
       ELSE IF leadAgent
       THEN /\ rlpc' = "reply"
            /\ UNCHANGED <<pending, runpc, activeRuns>>
       ELSE /\ runpc' = "start"
            /\ activeRuns' = activeRuns + 1
            /\ rlpc' = "recv"
            /\ UNCHANGED pending
    /\ UNCHANGED <<cur, nrecv, naccepted, askSite, qid, nextQ, askResult, skillsPicked,
                   convStatus, title, messages, sent, leadAgent, runs, outcome,
                   worker, nevents, evt, mcp, cancelReq, rpos>>
    /\ UNCHANGED extVars

\* the quick reply: _agent_reply, then send
ReplySend ==
    /\ rlpc = "reply"
    /\ Send("agent_message", <<"reply">>, AbsentQ)
    /\ rlpc' = "reply_persist"
    /\ UNCHANGED <<cur, nrecv, naccepted, runpc, askSite, qid, nextQ, pending, askResult,
                   skillsPicked, convStatus, title, messages, leadAgent, runs,
                   activeRuns, outcome, worker, nevents, evt, mcp, cancelReq, rpos>>
    /\ UNCHANGED extVars

\* the quick reply: append_message
ReplyPersist ==
    /\ rlpc = "reply_persist"
    /\ AppendMessage("agent", "message", <<"reply">>)
    /\ rlpc' = "recv"
    /\ UNCHANGED <<cur, nrecv, naccepted, runpc, askSite, qid, nextQ, pending, askResult,
                   skillsPicked, convStatus, title, sent, leadAgent, runs,
                   activeRuns, outcome, worker, nevents, evt, mcp, cancelReq, rpos>>
    /\ UNCHANGED extVars

\* the finally block of the receive loop
Cleanup ==
    /\ cancelReq' = RunInFlight
    /\ pending' = CancelAll

\* WebSocketDisconnect out of receive_text, or an exception out of a read of the
\* store (get_conversation), reported with send; then the finally block
Disconnect ==
    /\ rlpc \in {"recv", "title", "reply"}
    /\ IF rlpc = "recv"
       THEN sent' = sent
       ELSE Send("error", <<"exception">>, AbsentQ)
    /\ Cleanup
    /\ rlpc' = "closed"
    /\ UNCHANGED <<cur, nrecv, naccepted, runpc, askSite, qid, nextQ, askResult,
                   skillsPicked, convStatus, title, messages, leadAgent, runs,
                   activeRuns, outcome, worker, nevents, evt, mcp, rpos>>
    /\ UNCHANGED extVars

\* ------------------------------------------------------------- Run task
\* the Run task returns or raises: run_task.done() becomes true
Finish(how) ==
    /\ runpc' = "done"
    /\ outcome' = how
    /\ activeRuns' = activeRuns - 1

\* the order of the calls of _ask_user in _run_crew_inner, and what follows each
NextSite(site) ==
    CASE site = "crew" -> "skills"
      [] site = "skills" -> "inputs"
      [] site = "inputs" -> "plan"
      [] site = "clarify" -> "build"

AskSites == {"crew", "skills", "inputs", "clarify"}

\* _run_crew_inner up to the crew selection: get_planner, get_memory_policy, ...
RunBegin ==
    /\ runpc = "start"
    /\ ~cancelReq
    /\ \E planner \in BOOLEAN :
        IF planner
        THEN /\ runpc' = "crew"
             /\ UNCHANGED <<sent, outcome, activeRuns>>
        ELSE /\ Send("error", <<"No crew planner configured">>, AbsentQ)
             /\ Finish("no_planner")
    /\ skillsPicked' = FALSE
    /\ UNCHANGED <<rlpc, cur, nrecv, naccepted, askSite, qid, nextQ, pending, askResult,
                   convStatus, title, messages, leadAgent, runs, worker,
                   nevents, evt, mcp, cancelReq, rpos>>
    /\ UNCHANGED extVars

\* a step of _run_crew_inner that has nothing to ask: no crews, no skills, no
\* missing required inputs, no clarifying questions
SkipAsk(site) ==
    /\ runpc = site
    /\ ~cancelReq
    /\ runpc' = NextSite(site)
    /\ UNCHANGED <<rlpc, cur, nrecv, naccepted, askSite, qid, nextQ, pending, askResult,
                   skillsPicked, convStatus, title, messages, sent,
                   leadAgent, runs, activeRuns, outcome, worker, nevents,
                   evt, mcp, cancelReq, rpos>>
    /\ UNCHANGED extVars

\* _ask_user: q_id = _msg_key(); await send(msg)
AskSend(site) ==
    /\ runpc = site
    /\ ~cancelReq
    /\ site = "inputs" => skillsPicked
    /\ nextQ' = nextQ + 1
    /\ qid' = nextQ + 1
    /\ askSite' = site
    /\ Send("question", <<"?">>, nextQ + 1)
    /\ runpc' = "ask_persist"
    /\ UNCHANGED <<rlpc, cur, nrecv, naccepted, pending, askResult, skillsPicked,
                   convStatus, title, messages, leadAgent, runs, activeRuns,
                   outcome, worker, nevents, evt, mcp, cancelReq, rpos>>
    /\ UNCHANGED extVars

\* _ask_user: await sanity.append_message(conversation_id, persist_msg)
AskPersist ==
    /\ runpc = "ask_persist"
    /\ ~cancelReq
    /\ AppendMessage("system", "question", <<"?">>)
    /\ runpc' = "ask_status"
    /\ UNCHANGED <<rlpc, cur, nrecv, naccepted, askSite, qid, nextQ, pending, askResult,
                   skillsPicked, convStatus, title, sent, leadAgent, runs,
                   activeRuns, outcome, worker, nevents, evt, mcp, cancelReq,
                   rpos>>
    /\ UNCHANGED extVars

AskRegister_NoStatus ==
    /\ runpc = "ask_status"
    /\ ~cancelReq
    /\ pending' = (qid :> Future("waiting", <<>>)) @@ pending
    /\ runpc' = "ask_wait"
    /\ UNCHANGED <<rlpc, cur, nrecv, naccepted, askSite, qid, nextQ, askResult,
                   skillsPicked, convStatus, title, messages, sent, leadAgent, runs,
                   activeRuns, outcome, worker, nevents, evt, mcp, cancelReq,
                   rpos>>
    /\ UNCHANGED extVars

\* _ask_user: await update_conversation_status("awaiting_input"), then the future
\* is created and registered and wait_for suspends
AskRegister ==
    /\ runpc = "ask_status"
    /\ ~cancelReq
    /\ convStatus' = "awaiting_input"
    /\ pending' = (qid :> Future("waiting", <<>>)) @@ pending
    /\ runpc' = "ask_wait"
    /\ UNCHANGED <<rlpc, cur, nrecv, naccepted, askSite, qid, nextQ, askResult,
                   skillsPicked, title, messages, sent, leadAgent, runs,
                   activeRuns, outcome, worker, nevents, evt, mcp, cancelReq,
                   rpos>>
    /\ UNCHANGED extVars

\* _ask_user: wait_for returns the future's result; finally pops the question
AskAnswered ==
    /\ runpc = "ask_wait"
    /\ ~cancelReq
    /\ pending[qid].st = "result"
    /\ askResult' = pending[qid].val
    /\ pending' = Pop(qid)
    /\ runpc' = "ask_active"
    /\ UNCHANGED <<rlpc, cur, nrecv, naccepted, askSite, qid, nextQ, skillsPicked,
                   convStatus, title, messages, sent, leadAgent, runs,
                   activeRuns, outcome, worker, nevents, evt, mcp, cancelReq,
                   rpos>>
    /\ UNCHANGED extVars

\* _ask_user: await update_conversation_status("active"); return answer
AskReturn ==
    /\ runpc = "ask_active"
    /\ ~cancelReq
    /\ convStatus' = "active"
    /\ runpc' = NextSite(askSite)
    /\ IF askSite = "skills"
       THEN skillsPicked' \in BOOLEAN
       ELSE skillsPicked' = skillsPicked
    /\ UNCHANGED <<rlpc, cur, nrecv, naccepted, askSite, qid, nextQ, pending, askResult,
                   title, messages, sent, leadAgent, runs, activeRuns,
                   outcome, worker, nevents, evt, mcp, cancelReq, rpos>>
    /\ UNCHANGED extVars

\* _ask_user: 600 s pass; wait_for cancels the future and raises TimeoutError
AskTimeout ==
    /\ runpc = "ask_wait"
    /\ ~cancelReq
    /\ pending[qid].st = "waiting"
    /\ pending' = [pending EXCEPT ![qid] = Future("cancelled", <<>>)]
    /\ runpc' = "ask_timeout"
    /\ UNCHANGED <<rlpc, cur, nrecv, naccepted, askSite, qid, nextQ, askResult,
                   skillsPicked, convStatus, title, messages, sent,
                   leadAgent, runs, activeRuns, outcome, worker, nevents,
                   evt, mcp, cancelReq, rpos>>
    /\ UNCHANGED extVars

\* _ask_user: the except block sends the error, finally pops the question, and
\* _run_crew_inner returns on the TimeoutError
AskTimeoutSent ==
    /\ runpc = "ask_timeout"
    /\ ~cancelReq
    /\ Send("error", <<"Timed out waiting for answer">>, AbsentQ)
    /\ pending' = Pop(qid)
    /\ Finish("timeout")
    /\ UNCHANGED <<rlpc, cur, nrecv, naccepted, askSite, qid, nextQ, askResult,
                   skillsPicked, convStatus, title, messages, leadAgent,
                   runs, worker, nevents, evt, mcp, cancelReq, rpos>>
    /\ UNCHANGED extVars

Plan_RunFirst ==
    /\ runpc = "plan"
    /\ ~cancelReq
    /\ runs' = Append(runs, "running")
    /\ \E ok \in BOOLEAN :
        IF ok
        THEN /\ Send("system", <<"Planning your workflow...">>, AbsentQ)
             /\ runpc' = "clarify"
             /\ UNCHANGED <<outcome, activeRuns>>
        ELSE /\ sent' = sent \o << Out("system", <<"Planning your workflow...">>, AbsentQ),
                                   Out("error", <<"Planning failed">>, AbsentQ) >>
             /\ Finish("planning_failed")
    /\ UNCHANGED <<rlpc, cur, nrecv, naccepted, askSite, qid, nextQ, pending, askResult,
                   skillsPicked, convStatus, title, messages, leadAgent,
                   worker, nevents, evt, mcp, cancelReq, rpos>>
    /\ UNCHANGED extVars

\* the planning phase: plan_crew succeeds, or raises and the Run task returns
Plan ==
    /\ runpc = "plan"
    /\ ~cancelReq
    /\ \E ok \in BOOLEAN :
        IF ok
        THEN /\ Send("system", <<"Planning your workflow...">>, AbsentQ)
             /\ runpc' = "clarify"
             /\ UNCHANGED <<outcome, activeRuns>>
        ELSE /\ sent' = sent \o << Out("system", <<"Planning your workflow...">>, AbsentQ),
                                   Out("error", <<"Planning failed">>, AbsentQ) >>
             /\ Finish("planning_failed")
    /\ UNCHANGED <<rlpc, cur, nrecv, naccepted, askSite, qid, nextQ, pending, askResult,
                   skillsPicked, convStatus, title, messages, leadAgent,
                   runs, worker, nevents, evt, mcp, cancelReq, rpos>>
    /\ UNCHANGED extVars

\* agent resolution and crew construction, up to create_run; an exception here
\* (a validation error of Agent, Task, Credential or Crew) reaches _run_crew
Build ==
    /\ runpc = "build"
    /\ ~cancelReq
    /\ \E ok \in BOOLEAN, lead \in BOOLEAN :
        IF ok
        THEN /\ lead
             /\ leadAgent' = TRUE
             /\ runpc' = "create_run"
             /\ UNCHANGED <<sent, convStatus, outcome, activeRuns>>
        ELSE /\ leadAgent' = (leadAgent \/ lead)
             /\ Send("error", <<"Something went wrong">>, AbsentQ)
             /\ convStatus' = "active"
             /\ Finish("exception")
    /\ UNCHANGED <<rlpc, cur, nrecv, naccepted, askSite, qid, nextQ, pending, askResult,
                   skillsPicked, title, messages, runs, worker, nevents, evt,
                   mcp, cancelReq, rpos>>
    /\ UNCHANGED extVars

\* create_run, add_run_to_conversation, the status event, the MCP connections
CreateRun ==
    /\ runpc = "create_run"
    /\ ~cancelReq
    /\ runs' = Append(runs, "running")
    /\ Send("status", <<"running">>, AbsentQ)
    /\ mcp' = "connected"
    /\ runpc' = "exec_start"
    /\ UNCHANGED <<rlpc, cur, nrecv, naccepted, askSite, qid, nextQ, pending, askResult,
                   skillsPicked, convStatus, title, messages, leadAgent,
                   activeRuns, outcome, worker, nevents, evt, cancelReq,
                   rpos>>
    /\ UNCHANGED extVars

SetLastRun(status) == [runs EXCEPT ![Len(runs)] = status]

\* run_with_streaming up to run_in_executor: build_crew, run_started, the
\* "Crew assembled" event; build_crew raising reaches the except of the relay
ExecStart ==
    /\ runpc = "exec_start"
    /\ ~cancelReq
    /\ \E ok \in BOOLEAN :
        IF ok
        THEN /\ Send("agent_message", <<"Crew assembled">>, AbsentQ)
             /\ worker' = "running"
             /\ nevents' = 0
             /\ runpc' = "exec"
             /\ UNCHANGED <<runs, mcp, outcome, activeRuns>>
        ELSE /\ runs' = SetLastRun("failed")
             /\ Send("error", <<"exception">>, AbsentQ)
             /\ mcp' = "disconnected"
             /\ Finish("exec_error")
             /\ UNCHANGED <<worker, nevents>>
    /\ UNCHANGED <<rlpc, cur, nrecv, naccepted, askSite, qid, nextQ, pending, askResult,
                   skillsPicked, convStatus, title, messages, leadAgent, evt,
                   cancelReq, rpos>>
    /\ UNCHANGED extVars

\* the types of agent_message events the relay distinguishes
EventTypes == {"message", "thinking"}

\* the types an agent_message event of the executor can carry
RelayEventTypes == {"message", "thinking", "tool_call", "tool_result", "status", "system"}

\* msg_type -> ws_type
WsType(t) ==
    IF t \in {"tool_call", "tool_result"} THEN t
    ELSE IF t = "thinking" THEN "thinking" ELSE "agent_message"

Persisted_Always(t) == TRUE

\* ws_type not in _ephemeral_ws_types and msg_type not in _ephemeral_ws_types
Persisted(t) == WsType(t) \notin EphemeralTypes /\ t \notin EphemeralTypes

\* the relay of one agent_message event with a type of `types`: await send(out)
RelayEvent(types) ==
    /\ runpc = "exec"
    /\ ~cancelReq
    /\ nevents < MaxEvents
    /\ \E t \in types :
        /\ evt' = IF Persisted(t) THEN t ELSE "none"
        /\ Send(WsType(t), <<"out">>, AbsentQ)
        /\ runpc' = IF Persisted(t) THEN "exec_persist" ELSE "exec"
    /\ nevents' = nevents + 1
    /\ UNCHANGED <<rlpc, cur, nrecv, naccepted, askSite, qid, nextQ, pending, askResult,
                   skillsPicked, convStatus, title, messages, leadAgent,
                   runs, activeRuns, outcome, worker, mcp, cancelReq, rpos>>
    /\ UNCHANGED extVars

ExecEvent == RelayEvent(EventTypes)

ExecAnyEvent == RelayEvent(RelayEventTypes)

\* the relay of one agent_message event: await sanity.append_message(...)
ExecPersist ==
    /\ runpc = "exec_persist"
    /\ ~cancelReq
    /\ AppendMessage("agent", WsType(evt), <<"out">>)
    /\ runpc' = "exec"
    /\ evt' = "none"
    /\ UNCHANGED <<rlpc, cur, nrecv, naccepted, askSite, qid, nextQ, pending, askResult,
                   skillsPicked, convStatus, title, sent, leadAgent, runs,
                   activeRuns, outcome, worker, nevents, mcp, cancelReq,
                   rpos>>
    /\ UNCHANGED extVars

\* run_kickoff on the executor thread: crew.kickoff returns or raises
WorkerFinish ==
    /\ worker = "running"
    /\ \E r \in {"returned", "raised"} : worker' = r
    /\ UNCHANGED <<rlpc, cur, nrecv, naccepted, runpc, askSite, qid, nextQ, pending,
                   askResult, skillsPicked, convStatus, title, messages,
                   sent, leadAgent, runs, activeRuns, outcome, nevents, evt,
                   mcp, cancelReq, rpos>>
    /\ UNCHANGED extVars

\* the relay of the complete event, then the finally of the relay
ExecComplete ==
    /\ runpc = "exec"
    /\ ~cancelReq
    /\ worker = "returned"
    /\ runs' = SetLastRun("completed")
    /\ Send("complete", <<"output">>, AbsentQ)
    /\ AppendMessage("system", "system", <<"Run completed.">>)
    /\ mcp' = "disconnected"
    /\ Finish("completed")
    /\ UNCHANGED <<rlpc, cur, nrecv, naccepted, askSite, qid, nextQ, pending, askResult,
                   skillsPicked, convStatus, title, leadAgent, worker,
                   nevents, evt, cancelReq, rpos>>
    /\ UNCHANGED extVars

\* the same, await by await. The relay of the complete event up to the summary
\* block: update_run_status, send, append_message
RelayComplete ==
    /\ runpc = "exec"
    /\ ~cancelReq
    /\ worker = "returned"
    /\ runs' = SetLastRun("completed")
    /\ Send("complete", <<"output">>, AbsentQ)
    /\ AppendMessage("system", "system", <<"Run completed.">>)
    /\ runpc' = "summary"
    /\ UNCHANGED <<rlpc, cur, nrecv, naccepted, askSite, qid, nextQ, pending, askResult,
                   skillsPicked, convStatus, title, leadAgent, worker, activeRuns,
                   outcome, mcp, nevents, evt, cancelReq, rpos>>
    /\ UNCHANGED extVars

\* where the summary block leaves the relay: the summary is stored; the language
\* model returns nothing or _generate_run_summary catches its failure and
\* returns None; get_conversation or update_conversation_summary raised and the
\* except of the block has logged it
SummaryResults == {"summary_stored", "summary_none", "summary_raised"}

RunSummary_Unguarded ==
    /\ runpc = "summary"
    /\ ~cancelReq
    /\ \E res \in SummaryResults :
        /\ runpc' = res
        /\ IF res = "summary_raised"
           THEN /\ runs' = SetLastRun("failed")
                /\ Send("error", <<"exception">>, AbsentQ)
           ELSE UNCHANGED <<runs, sent>>
    /\ UNCHANGED <<rlpc, cur, nrecv, naccepted, askSite, qid, nextQ, pending, askResult,
                   skillsPicked, convStatus, title, messages, leadAgent, worker,
                   activeRuns, outcome, mcp, nevents, evt, cancelReq, rpos>>
    /\ UNCHANGED extVars

\* the summary block in its try/except: get_conversation, _generate_run_summary,
\* update_conversation_summary
RunSummary ==
    /\ runpc = "summary"
    /\ ~cancelReq
    /\ \E res \in SummaryResults : runpc' = res
    /\ UNCHANGED <<rlpc, cur, nrecv, naccepted, askSite, qid, nextQ, pending, askResult,
                   skillsPicked, convStatus, title, messages, sent, leadAgent, runs,
                   worker, activeRuns, outcome, mcp, nevents, evt, cancelReq, rpos>>
    /\ UNCHANGED extVars

\* the finally of the relay after a complete event: disconnect_all
RelayFinally ==
    /\ runpc \in SummaryResults
    /\ ~cancelReq
    /\ mcp' = "disconnected"
    /\ Finish("completed")
    /\ UNCHANGED <<rlpc, cur, nrecv, naccepted, askSite, qid, nextQ, pending, askResult,
                   skillsPicked, convStatus, title, messages, sent, leadAgent, runs,
                   worker, nevents, evt, cancelReq, rpos>>
    /\ UNCHANGED extVars

\* the relay of the error event, the exception the executor re-raises, then the
\* finally of the relay
ExecError ==
    /\ runpc = "exec"
    /\ ~cancelReq
    /\ worker = "raised"
    /\ runs' = SetLastRun("failed")
    /\ sent' = sent \o << Out("error", <<"exception">>, AbsentQ),
                          Out("error", <<"exception">>, AbsentQ) >>
    /\ mcp' = "disconnected"
    /\ Finish("exec_error")
    /\ UNCHANGED <<rlpc, cur, nrecv, naccepted, askSite, qid, nextQ, pending, askResult,
                   skillsPicked, convStatus, title, messages, leadAgent,
                   worker, nevents, evt, cancelReq, rpos>>
    /\ UNCHANGED extVars

\* CancelledError is thrown into the Run task at the await it is suspended at:
\* the finally of _ask_user and the finally of the relay run, nothing else
RunCancelled ==
    /\ cancelReq
    /\ RunInFlight
    /\ pending' = IF runpc \in {"ask_wait", "ask_timeout"} THEN Pop(qid) ELSE pending
    /\ mcp' = IF mcp = "connected" THEN "disconnected" ELSE mcp
    /\ runpc' = "cancelled"
    /\ outcome' = "cancelled"
    /\ activeRuns' = activeRuns - 1
    /\ cancelReq' = FALSE
    /\ UNCHANGED <<rlpc, cur, nrecv, naccepted, askSite, qid, nextQ, askResult,
                   skillsPicked, convStatus, title, messages, sent,
                   leadAgent, runs, worker, nevents, evt, rpos>>
    /\ UNCHANGED extVars

\* ------------------------------------------------- replay on connect
\* the stored type and sender -> the type the client is sent
ReplayType(m) ==
    IF m.type = "message" /\ m.sender = "user" THEN "user_message"
    ELSE IF m.type = "message" THEN "agent_message"
    ELSE m.type

\* replay_msg
ReplayMsg(m) ==
    [type |-> ReplayType(m), sender |-> m.sender, content |-> m.content,
     timestamp |-> m.timestamp, replayed |-> TRUE]

\* the entries the replay loop does not skip
Replayable(m) == m.content # <<>> /\ m.type \notin EphemeralTypes

\* one iteration of the replay loop; a failed send_json breaks out of it
ReplayEntry ==
    /\ rlpc = "replay"
    /\ rpos <= Len(messages)
    /\ LET m == messages[rpos] IN
        IF Replayable(m)
        THEN \E ok \in BOOLEAN :
                IF ok
                THEN /\ sent' = Append(sent, ReplayMsg(m))
                     /\ rpos' = rpos + 1
                     /\ rlpc' = rlpc
                ELSE /\ rlpc' = "recv"
                     /\ UNCHANGED <<sent, rpos>>
        ELSE /\ rpos' = rpos + 1
             /\ UNCHANGED <<sent, rlpc>>
    /\ UNCHANGED <<cur, nrecv, naccepted, runpc, askSite, qid, nextQ,
                   pending, askResult, skillsPicked, convStatus, title,
                   messages, leadAgent, runs, activeRuns, outcome, worker,
                   nevents, evt, mcp, cancelReq>>
    /\ UNCHANGED extVars

\* the replay loop has visited every stored entry
ReplayDone ==
    /\ rlpc = "replay"
    /\ rpos > Len(messages)
    /\ rlpc' = "recv"
    /\ UNCHANGED <<cur, nrecv, naccepted, runpc, askSite, qid, nextQ,
                   pending, askResult, skillsPicked, convStatus, title,
                   messages, sent, leadAgent, runs, activeRuns, outcome,
                   worker, nevents, evt, mcp, cancelReq, rpos>>
    /\ UNCHANGED extVars

\* what a stored transcript entry may be: every type the session appends, and the
\* live-only types
StoredKinds ==
    { <<"user", "message">>, <<"agent", "message">>, <<"agent", "agent_message">>,
      <<"system", "question">>, <<"user", "answer">>, <<"system", "system">>,
      <<"agent", "thinking">>, <<"agent", "tool_call">>, <<"agent", "tool_result">>,
      <<"system", "status">> }

StoredEntries ==
    { [sender |-> k[1], type |-> k[2], content |-> c, timestamp |-> t] :
        k \in StoredKinds, c \in {<<>>, <<"a">>}, t \in {"t1", "t2"} }

Transcripts == UNION { [1..n -> StoredEntries] : n \in 0..MaxStored }

\* ------------------------------------------------------ the specification
Init ==
    /\ rlpc = "recv"
    /\ cur = NoFrame
    /\ nrecv = 0
    /\ naccepted = 0
    /\ runpc = "none"
    /\ askSite = "none"
    /\ qid = AbsentQ
    /\ nextQ = 0
    /\ pending = NoPending
    /\ askResult = <<>>
    /\ skillsPicked = FALSE
    /\ convStatus = "active"
    /\ title = "New Conversation"
    /\ messages = <<>>
    /\ sent = <<>>
    /\ leadAgent = FALSE
    /\ runs = <<>>
    /\ activeRuns = 0
    /\ outcome = "none"
    /\ worker = "idle"
    /\ nevents = 0
    /\ evt = "none"
    /\ mcp = "none"
    /\ cancelReq = FALSE
    /\ rpos = 1
    /\ ExtIdle

Next ==
    \/ Receive
    \/ Persist
    \/ Title
    \/ Route
    \/ ReplySend
    \/ ReplyPersist
    \/ Disconnect
    \/ RunBegin
    \/ \E site \in AskSites : SkipAsk(site)
    \/ \E site \in AskSites : AskSend(site)
    \/ AskPersist
    \/ AskRegister
    \/ AskAnswered
    \/ AskReturn
    \/ AskTimeout
    \/ AskTimeoutSent
    \/ Plan
    \/ Build
    \/ CreateRun
    \/ ExecStart
    \/ ExecEvent
    \/ ExecPersist
    \/ WorkerFinish
    \/ ExecComplete
    \/ ExecError
    \/ RunCancelled

Spec == Init /\ [][Next]_vars

\* a connection to a Conversation with a stored transcript: the replay
InitReplay ==
    /\ rlpc = "replay"
    /\ cur = NoFrame
    /\ nrecv = 0
    /\ naccepted = 0
    /\ runpc = "none"
    /\ askSite = "none"
    /\ qid = AbsentQ
    /\ nextQ = 0
    /\ pending = NoPending
    /\ askResult = <<>>
    /\ skillsPicked = FALSE
    /\ convStatus = "active"
    /\ title = "set"
    /\ messages \in Transcripts
    /\ sent = <<>>
    /\ leadAgent = FALSE
    /\ runs = <<>>
    /\ activeRuns = 0
    /\ outcome = "none"
    /\ worker = "idle"
    /\ nevents = 0
    /\ evt = "none"
    /\ mcp = "none"
    /\ cancelReq = FALSE
    /\ rpos = 1
    /\ ExtIdle

NextReplay ==
    \/ ReplayEntry
    \/ ReplayDone

SpecReplay == InitReplay /\ [][NextReplay]_vars

\* ------------------------------------ the session while the relay runs
\* the session after the first user message has started a Run and the Run has
\* been planned and created
InitRelay ==
    /\ rlpc = "recv"
    /\ cur = [type |-> "user_message", content |-> <<"a">>, qid |-> AbsentQ]
    /\ nrecv = 1
    /\ naccepted = 1
    /\ runpc = "exec_start"
    /\ askSite = "none"
    /\ qid = AbsentQ
    /\ nextQ = 0
    /\ pending = NoPending
    /\ askResult = <<>>
    /\ skillsPicked = FALSE
    /\ convStatus = "active"
    /\ title = "set"
    /\ messages = << Entry("user", "message", <<"a">>) >>
    /\ sent = << Out("system", <<"Planning your workflow...">>, AbsentQ),
                 Out("status", <<"running">>, AbsentQ) >>
    /\ leadAgent = TRUE
    /\ runs = <<"running">>
    /\ activeRuns = 1
    /\ outcome = "none"
    /\ worker = "idle"
    /\ nevents = 0
    /\ evt = "none"
    /\ mcp = "connected"
    /\ cancelReq = FALSE
    /\ rpos = 1
    /\ ExtIdle

\* the receive loop, and the Run task from the start of the executor on
NextRelay ==
    \/ Receive
    \/ Persist
    \/ Title
    \/ Route
    \/ ReplySend
    \/ ReplyPersist
    \/ Disconnect
    \/ ExecStart
    \/ ExecAnyEvent
    \/ ExecPersist
    \/ WorkerFinish
    \/ RelayComplete
    \/ RunSummary
    \/ RelayFinally
    \/ ExecError
    \/ RunCancelled

SpecRelay == InitRelay /\ [][NextRelay]_vars

\* ------------------------------- the session while a Run asks its questions
\* the session after the first user message has started a Run; nrecv counts the
\* frames that follow it
InitAsk ==
    /\ rlpc = "recv"
    /\ cur = [type |-> "user_message", content |-> <<"a">>, qid |-> AbsentQ]
    /\ nrecv = 0
    /\ naccepted = 0
    /\ runpc = "start"
    /\ askSite = "none"
    /\ qid = AbsentQ
    /\ nextQ = 0
    /\ pending = NoPending
    /\ askResult = <<>>
    /\ skillsPicked = FALSE
    /\ convStatus = "active"
    /\ title = "set"
    /\ messages = << Entry("user", "message", <<"a">>) >>
    /\ sent = <<>>
    /\ leadAgent = FALSE
    /\ runs = <<>>
    /\ activeRuns = 1
    /\ outcome = "none"
    /\ worker = "idle"
    /\ nevents = 0
    /\ evt = "none"
    /\ mcp = "none"
    /\ cancelReq = FALSE
    /\ rpos = 1
    /\ ExtIdle

\* the receive loop, and the Run task up to the planning phase
NextAsk ==
    \/ Receive
    \/ Persist
    \/ Title
    \/ Route
    \/ Disconnect
    \/ RunBegin
    \/ \E site \in AskSites : SkipAsk(site)
    \/ \E site \in AskSites : AskSend(site)
    \/ AskPersist
    \/ AskRegister
    \/ AskAnswered
    \/ AskReturn
    \/ AskTimeout
    \/ AskTimeoutSent
    \/ RunCancelled

SpecAsk == InitAsk /\ [][NextAsk]_vars

\* ------------------------------------------- the executor: CrewRunner
\* Strings whose letters matter (labels, names, roles) are sequences of
\* characters, so that lower(), replace() and `in` are computed.
LowerChar(c) ==
    CASE c = "A" -> "a" [] c = "D" -> "d" [] c = "G" -> "g" [] c = "W" -> "w"
      [] OTHER -> c

\* the elements of a sequence
Range(seq) == {seq[i] : i \in DOMAIN seq}

\* str.lower()
Lower(s) == [i \in DOMAIN s |-> LowerChar(s[i])]

\* str.replace(a, b) for single characters
Replace(s, a, b) == [i \in DOMAIN s |-> IF s[i] = a THEN b ELSE s[i]]

\* a in b, for strings
IsSubstr(a, b) ==
    \E i \in 0..(Len(b) - Len(a)) : SubSeq(b, i + 1, i + Len(a)) = a

\* the agents of the crew configuration: one planned agent, and the memory agent
WriterAgent == [id |-> <<"i", "-", "w">>, name |-> <<"A", "n">>, role |-> <<"W", SP, "r">>]

MemoryAgent == [id |-> <<"i", "-", "g">>, name |-> <<"G", "v">>, role |-> <<"D", "r">>]

\* self.config.agents, and crew.agents built from it
ConfigAgents == IF policy THEN <<WriterAgent, MemoryAgent>> ELSE <<WriterAgent>>

\* memory_agent_names
MemoryAgentNames ==
    IF policy
    THEN {MemoryAgent.role, Lower(MemoryAgent.role), MemoryAgent.name, Lower(MemoryAgent.name)}
    ELSE {}

\* _is_memory_agent(label)
IsMemoryAgent(label) ==
    /\ label # <<>>
    /\ MemoryAgentNames # {}
    /\ \/ Lower(label) \in MemoryAgentNames
       \/ label \in MemoryAgentNames
       \/ \E name \in MemoryAgentNames :
             IsSubstr(name, Lower(label)) \/ IsSubstr(Lower(label), name)

\* the keys _add_role_variation adds for one key
Variations(key) ==
    << Lower(key), Replace(Lower(key), SP, "_"), Replace(Lower(key), "_", SP),
       Replace(Lower(key), "-", SP), Replace(Lower(key), "-", "_") >>

DisplayOf(ag) == IF ag.name # <<>> THEN ag.name ELSE ag.role

RECURSIVE RoleKeys(_)
\* agent_name_by_role as the list of its (key, display) items in insertion order;
\* an earlier key wins, as `variant not in agent_name_by_role` makes it
RoleKeys(agents) ==
    IF agents = <<>> THEN <<>>
    ELSE LET ag == Head(agents)
             keys == Variations(ag.role) \o Variations(ag.name) \o Variations(ag.id)
         IN [i \in DOMAIN keys |-> [key |-> keys[i], display |-> DisplayOf(ag)]]
            \o RoleKeys(Tail(agents))

\* _normalize(s)
Normalize(s) == Strip(Replace(Replace(Lower(s), "_", SP), "-", SP))

AgentLabel == <<"A", "g", "e", "n", "t">>

\* the first item of the list that satisfies Test(item), else none
FirstMatch(items, Test(_)) ==
    LET hits == {i \in DOMAIN items : Test(items[i])}
    IN IF hits = {} THEN 0 ELSE CHOOSE i \in hits : \A j \in hits : i <= j

\* _display_name(raw_label)
DisplayName(raw) ==
    IF raw = <<>> THEN AgentLabel
    ELSE LET keys == RoleKeys(ConfigAgents)
             norm == Normalize(raw)
             Exact(k) == Normalize(k.key) = norm
             Partial(k) == IsSubstr(Normalize(k.key), norm) \/ IsSubstr(norm, Normalize(k.key))
             e == FirstMatch(keys, Exact)
             p == FirstMatch(keys, Partial)
         IN IF e # 0 THEN keys[e].display
            ELSE IF p # 0 THEN keys[p].display
            ELSE raw

\* _build_memory_names(memory_policy)
MemNames ==
    IF policy
    THEN {MemoryAgent.name, Lower(MemoryAgent.name), MemoryAgent.role, Lower(MemoryAgent.role)}
    ELSE {}

IsMemorySender_Never(label) == FALSE

\* _is_memory_sender(label, mem_names)
IsMemorySender(label) ==
    /\ label # <<>>
    /\ MemNames # {}
    /\ \/ Lower(label) \in MemNames
       \/ label \in MemNames
       \/ \E n \in MemNames : IsSubstr(n, Lower(label)) \/ IsSubstr(Lower(label), n)

SystemLabel == <<"s", "y", "s", "t", "e", "m">>

\* the agent labels CrewAI prints after "Agent:": the planned agent's role with
\* the space mangled, and the memory agent's role in lower case
StdoutLabels == { <<"w", "_", "r">>, <<"d", "r">> }

\* the narration lines the parser tells apart
NarrationLines ==
    { [kind |-> "blank", arg |-> <<>>],
      [kind |-> "started", arg |-> <<>>],
      [kind |-> "boundary", arg |-> <<>>],
      [kind |-> "final", arg |-> <<>>],
      [kind |-> "final", arg |-> <<"x">>],
      [kind |-> "text", arg |-> <<"y">>] }
    \cup { [kind |-> "agent", arg |-> l] : l \in StdoutLabels }

\* the line as it is buffered in final_lines
Cleaned(line) == IF line.kind = "agent" THEN <<"Agent:">> \o line.arg ELSE line.arg

\* task_info_list: the tasks of the configuration that are not memory tasks
TaskInfoList == << [name |-> "t1", agent_id |-> WriterAgent.id],
                   [name |-> "t2", agent_id |-> <<>>] >>

\* agent_name_by_id.get(agent_id)
AgentNameById(aid) ==
    LET hit == {i \in DOMAIN ConfigAgents : ConfigAgents[i].id = aid}
    IN IF hit = {} THEN <<>> ELSE DisplayOf(ConfigAgents[CHOOSE i \in hit : TRUE])

Event(event, type, agent, content) ==
    [event |-> event, type |-> type, agent |-> agent, content |-> content]

OutFrom(type, sender, content) == [type |-> type, sender |-> sender, content |-> content]

\* the relay of the session for the events of one step: what it sends
RelayOuts(evs) ==
    IF evs = <<>> THEN <<>>
    ELSE LET e == evs[1] IN
         IF e.event = "agent_message"
         THEN IF IsMemorySender(e.agent) THEN <<>>
              ELSE << OutFrom(WsType(e.type),
                              IF e.agent = <<>> THEN AgentLabel ELSE e.agent,
                              e.content) >>
         ELSE IF e.event \in {"complete", "error"}
         THEN << OutFrom(e.event, SystemLabel, e.content) >>
         ELSE <<>>

\* the relay of the session for the events of one step: what it appends
RelayEntries(evs) ==
    IF evs = <<>> THEN <<>>
    ELSE LET e == evs[1] IN
         IF e.event = "agent_message"
         THEN IF IsMemorySender(e.agent) \/ ~Persisted(e.type) THEN <<>>
              ELSE << Entry(IF e.agent = <<>> THEN AgentLabel ELSE e.agent,
                            WsType(e.type), e.content) >>
         ELSE IF e.event = "complete"
         THEN << Entry(SystemLabel, "system", <<"Run completed.">>) >>
         ELSE <<>>

\* one step of the generator that yields evs and goes on
Yield(evs) ==
    /\ yielded' = yielded \o evs
    /\ sent' = sent \o RelayOuts(evs)
    /\ messages' = messages \o RelayEntries(evs)
    /\ UNCHANGED <<runs, mcp, runpc, outcome, activeRuns>>

\* the generator raises exc out of run_with_streaming after yielding evs: the
\* except and the finally of the relay
Raise(evs) ==
    /\ yielded' = yielded \o evs
    /\ sent' = sent \o RelayOuts(evs) \o << OutFrom("error", SystemLabel, <<>>) >>
    /\ messages' = messages \o RelayEntries(evs)
    /\ runs' = SetLastRun("failed")
    /\ mcp' = "disconnected"
    /\ Finish("exec_error")
    /\ gpc' = "raised"

\* crew = self.build_crew(...); yield start_event
RunnerStart ==
    /\ gpc = "init"
    /\ \E built \in BOOLEAN :
        IF built
        THEN /\ Yield(<< Event("run_started", "", <<>>, <<>>) >>)
             /\ gpc' = "assemble"
        ELSE Raise(<<>>)
    /\ UNCHANGED <<policy, lastAgent, capturingFinal, finalLines, emittedHashes,
                   taskIndex, nlines, completed, fromMemory>>
    /\ UNCHANGED <<rlpc, cur, nrecv, naccepted, askSite, qid, nextQ, pending,
                   askResult, skillsPicked, convStatus, title, leadAgent, worker,
                   nevents, evt, cancelReq, rpos>>
    /\ UNCHANGED notRunner

\* the crew roster without the memory agent
VisibleAgents ==
    SelectSeq(ConfigAgents, LAMBDA ag : ~IsMemoryAgent(ag.role))

\* the "Crew assembled" event, then loop.run_in_executor(None, run_kickoff)
Assemble ==
    /\ gpc = "assemble"
    /\ Yield(IF VisibleAgents = <<>> THEN <<>>
             ELSE << Event("agent_message", "system", SystemLabel,
                           [i \in DOMAIN VisibleAgents |->
                               DisplayName(VisibleAgents[i].role)]) >>)
    /\ worker' = "running"
    /\ gpc' = "loop"
    /\ UNCHANGED <<policy, lastAgent, capturingFinal, finalLines, emittedHashes,
                   taskIndex, nlines, completed, fromMemory>>
    /\ UNCHANGED <<rlpc, cur, nrecv, naccepted, askSite, qid, nextQ, pending,
                   askResult, skillsPicked, convStatus, title, leadAgent,
                   nevents, evt, cancelReq, rpos>>
    /\ UNCHANGED notRunner

\* the stage message of the task that starts
StageEvents ==
    IF taskIndex < Len(TaskInfoList)
    THEN LET info == TaskInfoList[taskIndex + 1]
             byId == AgentNameById(info.agent_id)
             stageAgent == IF byId # <<>> THEN byId ELSE DisplayName(lastAgent')
         IN IF IsMemoryAgent(stageAgent) THEN <<>>
            ELSE << Event("agent_message", "thinking", stageAgent, << <<info.name>> >>) >>
    ELSE <<>>

\* the agent_message for a completed Final Answer block, unless its hash was seen
FinalEvents(lines, agent) ==
    IF lines # <<>> /\ lines \notin emittedHashes
    THEN << Event("agent_message", "message", DisplayName(agent), lines) >>
    ELSE <<>>

FinalHashes_NoDedup(lines) == emittedHashes

\* emitted_hashes after the block: hash(content) is taken as the content itself
FinalHashes(lines) ==
    IF lines # <<>> THEN emittedHashes \cup {lines} ELSE emittedHashes

\* history: the blocks completed so far, with the block `lines` added
Completed(lines) ==
    IF lines = <<>> THEN completed ELSE Append(completed, lines)

\* history: the mark of the buffer `lines` that final_lines has become, a line
\* that was appended having been read under the memory agent (mem) or not
Buffered(lines, mem) ==
    IF lines = <<>> THEN FALSE
    ELSE IF Len(lines) > Len(finalLines) THEN fromMemory \/ mem
    ELSE fromMemory

\* one iteration of the streaming loop: a line is read from stream_queue and parsed
ReadLine ==
    /\ gpc = "loop"
    /\ worker = "running"
    /\ nlines < MaxLines
    /\ nlines' = nlines + 1
    /\ \E line \in NarrationLines :
        /\ lastAgent' = IF line.kind = "agent" THEN line.arg ELSE lastAgent
        /\ IF line.kind = "blank"
           THEN /\ Yield(<<>>)
                /\ UNCHANGED <<capturingFinal, finalLines, emittedHashes, taskIndex,
                               completed, fromMemory>>
           ELSE IF line.kind = "started"
           THEN /\ Yield(StageEvents)
                /\ taskIndex' = IF taskIndex < Len(TaskInfoList)
                                THEN taskIndex + 1 ELSE taskIndex
                /\ UNCHANGED <<capturingFinal, finalLines, emittedHashes, completed,
                               fromMemory>>
           ELSE IF IsMemoryAgent(lastAgent')
           THEN /\ Yield(<<>>)
                /\ IF line.kind = "final"
                   THEN /\ capturingFinal' = TRUE
                        /\ finalLines' = IF line.arg # <<>>
                                         THEN Append(finalLines, line.arg)
                                         ELSE finalLines
                   ELSE IF capturingFinal
                   THEN IF line.kind = "boundary"
                        THEN capturingFinal' = FALSE /\ finalLines' = <<>>
                        ELSE /\ finalLines' = Append(finalLines, Cleaned(line))
                             /\ UNCHANGED capturingFinal
                   ELSE UNCHANGED <<capturingFinal, finalLines>>
                /\ fromMemory' = Buffered(finalLines', TRUE)
                /\ completed' = IF capturingFinal /\ line.kind = "boundary"
                                THEN Completed(finalLines) ELSE completed
                /\ UNCHANGED <<emittedHashes, taskIndex>>
           ELSE IF line.kind = "final"
           THEN /\ Yield(<<>>)
                /\ capturingFinal' = TRUE
                /\ finalLines' = IF line.arg # <<>>
                                 THEN Append(finalLines, line.arg) ELSE finalLines
                /\ fromMemory' = Buffered(finalLines', FALSE)
                /\ UNCHANGED <<emittedHashes, taskIndex, completed>>
           ELSE IF capturingFinal
           THEN IF line.kind = "boundary"
                THEN /\ Yield(FinalEvents(finalLines, lastAgent'))
                     /\ emittedHashes' = FinalHashes(finalLines)
                     /\ completed' = Completed(finalLines)
                     /\ capturingFinal' = FALSE
                     /\ finalLines' = <<>>
                     /\ fromMemory' = FALSE
                     /\ UNCHANGED taskIndex
                ELSE /\ Yield(<<>>)
                     /\ finalLines' = Append(finalLines, Cleaned(line))
                     /\ fromMemory' = Buffered(finalLines', FALSE)
                     /\ UNCHANGED <<capturingFinal, emittedHashes, taskIndex, completed>>
           ELSE /\ Yield(<<>>)
                /\ UNCHANGED <<capturingFinal, finalLines, emittedHashes, taskIndex,
                               completed, fromMemory>>
    /\ gpc' = gpc
    /\ UNCHANGED policy
    /\ UNCHANGED <<rlpc, cur, nrecv, naccepted, askSite, qid, nextQ, pending,
                   askResult, skillsPicked, convStatus, title, leadAgent, worker,
                   nevents, evt, cancelReq, rpos>>
    /\ UNCHANGED notRunner

\* the loop is over (kickoff_future is done, the queue is empty): the residual
\* captured content is flushed
Flush ==
    /\ gpc = "loop"
    /\ worker \in {"returned", "raised"}
    /\ Yield(FinalEvents(finalLines, lastAgent))
    /\ emittedHashes' = FinalHashes(finalLines)
    /\ completed' = Completed(finalLines)
    /\ finalLines' = <<>>
    /\ fromMemory' = FALSE
    /\ gpc' = "await"
    /\ UNCHANGED <<policy, lastAgent, capturingFinal, taskIndex, nlines>>
    /\ UNCHANGED <<rlpc, cur, nrecv, naccepted, askSite, qid, nextQ, pending,
                   askResult, skillsPicked, convStatus, title, leadAgent, worker,
                   nevents, evt, cancelReq, rpos>>
    /\ UNCHANGED notRunner

\* result = await kickoff_future; yield complete_event; the relay of complete
RunnerComplete ==
    /\ gpc = "await"
    /\ worker = "returned"
    /\ LET evs == << Event("complete", "", <<>>, <<>>) >> IN
        /\ yielded' = yielded \o evs
        /\ sent' = sent \o RelayOuts(evs)
        /\ messages' = messages \o RelayEntries(evs)
    /\ runs' = SetLastRun("completed")
    /\ mcp' = "disconnected"
    /\ Finish("completed")
    /\ gpc' = "done"
    /\ UNCHANGED <<policy, lastAgent, capturingFinal, finalLines, emittedHashes,
                   taskIndex, nlines, completed, fromMemory>>
    /\ UNCHANGED <<rlpc, cur, nrecv, naccepted, askSite, qid, nextQ, pending,
                   askResult, skillsPicked, convStatus, title, leadAgent, worker,
                   nevents, evt, cancelReq, rpos>>
    /\ UNCHANGED notRunner

\* await kickoff_future raises: yield error_event; raise
RunnerError ==
    /\ gpc = "await"
    /\ worker = "raised"
    /\ Raise(<< Event("error", "", <<>>, <<>>) >>)
    /\ UNCHANGED <<policy, lastAgent, capturingFinal, finalLines, emittedHashes,
                   taskIndex, nlines, completed, fromMemory>>
    /\ UNCHANGED <<rlpc, cur, nrecv, naccepted, askSite, qid, nextQ, pending,
                   askResult, skillsPicked, convStatus, title, leadAgent, worker,
                   nevents, evt, cancelReq, rpos>>
    /\ UNCHANGED notRunner

\* the relay of the session has called runner.run_with_streaming(inputs)
InitRunner ==
    /\ rlpc = "recv"
    /\ cur = NoFrame
    /\ nrecv = 0
    /\ naccepted = 0
    /\ runpc = "exec"
    /\ askSite = "none"
    /\ qid = AbsentQ
    /\ nextQ = 0
    /\ pending = NoPending
    /\ askResult = <<>>
    /\ skillsPicked = FALSE
    /\ convStatus = "active"
    /\ title = "set"
    /\ messages = <<>>
    /\ sent = <<>>
    /\ leadAgent = TRUE
    /\ runs = <<"running">>
    /\ activeRuns = 1
    /\ outcome = "none"
    /\ worker = "idle"
    /\ nevents = 0
    /\ evt = "none"
    /\ mcp = "connected"
    /\ cancelReq = FALSE
    /\ rpos = 1
    /\ gpc = "init"
    /\ yielded = <<>>
    /\ policy \in BOOLEAN
    /\ lastAgent = <<>>
    /\ capturingFinal = FALSE
    /\ finalLines = <<>>
    /\ emittedHashes = {}
    /\ taskIndex = 0
    /\ nlines = 0
    /\ completed = <<>>
    /\ fromMemory = FALSE
    /\ InjectOff
    /\ PlanOff
    /\ RestOff
    /\ McpOff
    /\ ReplyOff
    /\ CtxOff
    /\ BridgeOff

NextRunner ==
    \/ RunnerStart
    \/ Assemble
    \/ ReadLine
    \/ WorkerFinish
    \/ Flush
    \/ RunnerComplete
    \/ RunnerError

SpecRunner == InitRunner /\ [][NextRunner]_vars

\* --------------------------------- memory injection: _inject_memory_tasks
\* len(sorted_tasks) <= 2: the plans too simple for memory injection
SimplePlanMax == 2

\* f"task-{order}-{task.name}".replace(" ", "-").lower(), for an order of one digit
Slug(order, name) ==
    Lower(Replace(<<"t", "a", "s", "k", "-", ToString(order), "-">> \o name, SP, "-"))

\* the identifier plan assembly gives the task at position i of a plan; the
\* task is named "memory", the nearest its slug comes to a summary's identifier
TaskId(i) == Slug(i, <<"m", "e", "m", "o", "r", "y">>)

SummaryId_Same(order) == <<"t", "a", "s", "k", "-", "m", "e", "m", "o", "r", "y">>

\* f"task-memory-{order}"
SummaryId(order) ==
    <<"t", "a", "s", "k", "-", "m", "e", "m", "o", "r", "y", "-", ToString(order)>>

RECURSIVE InsertByOrder(_, _)
\* t placed behind every task of s whose order is not greater
InsertByOrder(t, s) ==
    IF s = <<>> THEN <<t>>
    ELSE IF Head(s).order <= t.order THEN <<Head(s)>> \o InsertByOrder(t, Tail(s))
    ELSE <<t>> \o s

SortedByOrder_Unsorted(tasks) == tasks

RECURSIVE SortedByOrder(_)
\* sorted(tasks, key=lambda t: t.get("order", 0)), a stable sort
SortedByOrder(tasks) ==
    IF tasks = <<>> THEN <<>>
    ELSE InsertByOrder(tasks[Len(tasks)], SortedByOrder(SubSeq(tasks, 1, Len(tasks) - 1)))

SummaryTask_NoContext(order, prev, agent) ==
    [id |-> SummaryId(order), name |-> "Memory Summary", order |-> order,
     agent |-> agent, contextTasks |-> <<>>]

\* the summary task injected before `task`
SummaryTask(order, prev, agent) ==
    [id |-> SummaryId(order), name |-> "Memory Summary", order |-> order,
     agent |-> agent, contextTasks |-> <<prev>>]

RECURSIVE InjectLoop(_, _, _, _, _, _)
\* the for loop over sorted_tasks, from index idx on
InjectLoop(sorted, idx, order, prev, agent, acc) ==
    IF idx > Len(sorted) THEN acc
    ELSE LET task == sorted[idx] IN
         IF idx > 1 /\ prev # <<>>
         THEN InjectLoop(sorted, idx + 1, order + 2, task.id, agent,
                         acc \o << SummaryTask(order, prev, agent),
                                   [task EXCEPT !.contextTasks = @ \o <<SummaryId(order)>>,
                                                !.order = order + 1] >>)
         ELSE InjectLoop(sorted, idx + 1, order + 1, task.id, agent,
                         Append(acc, [task EXCEPT !.order = order]))

InjectMemoryTasks_NoThreshold(tasks, agent) ==
    IF agent = <<>> THEN tasks
    ELSE InjectLoop(SortedByOrder(tasks), 1, 1, <<>>, agent, <<>>)

\* _inject_memory_tasks(tasks, memory_agent_id, ...)
InjectMemoryTasks(tasks, agent) ==
    IF agent = <<>> THEN tasks
    ELSE IF Len(tasks) <= SimplePlanMax THEN SortedByOrder(tasks)
    ELSE InjectLoop(SortedByOrder(tasks), 1, 1, <<>>, agent, <<>>)

\* no conversation session is open
SessionOff ==
    /\ rlpc = "recv"
    /\ cur = NoFrame
    /\ nrecv = 0
    /\ naccepted = 0
    /\ runpc = "none"
    /\ askSite = "none"
    /\ qid = AbsentQ
    /\ nextQ = 0
    /\ pending = NoPending
    /\ askResult = <<>>
    /\ skillsPicked = FALSE
    /\ convStatus = "active"
    /\ title = "New Conversation"
    /\ messages = <<>>
    /\ sent = <<>>
    /\ leadAgent = FALSE
    /\ runs = <<>>
    /\ activeRuns = 0
    /\ outcome = "none"
    /\ worker = "idle"
    /\ nevents = 0
    /\ evt = "none"
    /\ mcp = "none"
    /\ cancelReq = FALSE
    /\ rpos = 1

\* the task lists build_crew passes: the tasks of a planned crew (order 1, 2, ...,
\* chained by contextTasks or not) or with any other order values
PlanTask(i, order, chained) ==
    [id |-> TaskId(i), name |-> "task", order |-> order, agent |-> <<"agent-w">>,
     contextTasks |-> IF chained /\ i > 1 THEN <<TaskId(i - 1)>> ELSE <<>>]

TaskLists ==
    UNION { { [i \in 1..n |-> PlanTask(i, ord[i], chained)] :
                ord \in [1..n -> 0..MaxTasks], chained \in BOOLEAN } : n \in 0..MaxTasks }

InitInject ==
    /\ SessionOff
    /\ RunnerOff
    /\ PlanOff
    /\ RestOff
    /\ McpOff
    /\ ReplyOff
    /\ CtxOff
    /\ BridgeOff
    /\ ipc = "in"
    /\ tasksIn \in TaskLists
    /\ memoryAgentId \in {<<>>, <<"agent-g">>}
    /\ injected = <<>>

\* build_crew calls self._inject_memory_tasks(raw_tasks, memory_agent_id, ...)
Inject ==
    /\ ipc = "in"
    /\ injected' = InjectMemoryTasks(tasksIn, memoryAgentId)
    /\ ipc' = "out"
    /\ UNCHANGED <<tasksIn, memoryAgentId>>
    /\ UNCHANGED <<sessionVars, notInject>>

NextInject == Inject

SpecInject == InitInject /\ [][NextInject]_vars

\* ------------------------------------------------------------ plan assembly
\* a second agent of the store
AnalystAgent == [id |-> <<"i", "-", "a">>, name |-> <<"A", "d">>, role |-> <<"D", "a">>]

\* an agent document of the store; valid: Agent(**doc) validates
AgentDoc(ag, valid) == [id |-> ag.id, name |-> ag.name, role |-> ag.role, valid |-> valid]

\* None
NoId == <<>>

\* the identifiers a planner returns: the exact id of either agent, a role
\* written with an underscore, an unknown name, and a string that contains an
\* agent's name
RawIds ==
    { WriterAgent.id, AnalystAgent.id, <<"W", "_", "r">>, <<"z">>, <<"x", "A", "n">> }

\* the tasks a planner returns: a name, the agent_id (an exact id or an unknown
\* name) and the order the planner wrote (0 when it wrote none)
PlanTasks ==
    { [name |-> <<"D", SP, "A">>, agent_id |-> WriterAgent.id, order |-> 2],
      [name |-> <<"W">>, agent_id |-> <<"z">>, order |-> 1],
      [name |-> <<"G", SP, "G">>, agent_id |-> AnalystAgent.id, order |-> 0] }

\* memory_agent_id
MemoryId == IF memoryPolicy THEN MemoryAgent.id ELSE NoId

\* agents: the candidates (the session leaves the memory agent out)
Agents ==
    IF via = "ws"
    THEN SelectSeq(allAgents, LAMBDA a : a.id # MemoryId)
    ELSE allAgents

\* raw_id.lower().replace("-", " ").replace("_", " ")
NormId(raw) == Replace(Replace(Lower(raw), "-", SP), "_", SP)

\* the test of the normalised substring match, in the session and in POST /runs
Matches(norm, a) ==
    \/ IsSubstr(norm, Lower(a.id)) \/ IsSubstr(Lower(a.id), norm)
    \/ IsSubstr(norm, Lower(a.name)) \/ IsSubstr(norm, Lower(a.role))
    \/ (via = "rest" /\ (IsSubstr(Lower(a.name), norm) \/ IsSubstr(Lower(a.role), norm)))

\* _resolve(raw_id) / _resolve_agent_id(raw_id)
Resolve(raw) ==
    IF \E i \in DOMAIN Agents : Agents[i].id = raw THEN raw
    ELSE LET hit == FirstMatch(Agents, LAMBDA a : Matches(NormId(raw), a))
         IN IF hit = 0 THEN NoId ELSE Agents[hit].id

\* the ids of a list of agent documents
IdsOf(docs) == [i \in DOMAIN docs |-> docs[i].id]

AllValid(docs) == \A i \in DOMAIN docs : docs[i].valid

\* the candidates that are in resolved_ids
ResolvedDocs == SelectSeq(Agents, LAMBDA a : a.id \in resolvedIds)

\* sorted(plan.tasks, key=lambda t: t.order)[0]: the first task of the least order
FirstByOrder(tasks) ==
    tasks[CHOOSE i \in DOMAIN tasks :
              \A j \in DOMAIN tasks :
                  \/ tasks[i].order < tasks[j].order
                  \/ (tasks[i].order = tasks[j].order /\ i <= j)]

\* lead_raw: the resolved agent of the first task by order, else the first
\* candidate in resolved_ids, else the lead agent stays what it was
LeadRaw(ids) ==
    LET first == IF rawPlan.tasks # <<>>
                 THEN Resolve(FirstByOrder(rawPlan.tasks).agent_id) ELSE NoId
        hit == FirstMatch(Agents, LAMBDA a : a.id \in ids)
    IN IF first # NoId THEN first
       ELSE IF hit # 0 THEN Agents[hit].id
       ELSE leadId

FallbackAgents_None(planned, candidates) == planned

\* if not planned_agents: planned_agents = [Agent(**a) for a in agents]
FallbackAgents(planned, candidates) ==
    IF planned = <<>> THEN candidates ELSE planned

\* the store and the plan the assembly starts from
InitPlan ==
    /\ SessionOff
    /\ RunnerOff
    /\ InjectOff
    /\ RestOff
    /\ McpOff
    /\ ReplyOff
    /\ CtxOff
    /\ BridgeOff
    /\ apc = "resolve"
    /\ via \in {"ws", "rest"}
    /\ memoryPolicy \in BOOLEAN
    /\ \E w \in {"absent", "valid", "invalid"}, a \in {"absent", "valid", "invalid"} :
          allAgents =
              (IF w = "absent" THEN <<>> ELSE <<AgentDoc(WriterAgent, w = "valid")>>)
              \o (IF a = "absent" THEN <<>> ELSE <<AgentDoc(AnalystAgent, a = "valid")>>)
              \o (IF memoryPolicy THEN <<AgentDoc(MemoryAgent, TRUE)>> ELSE <<>>)
    /\ \E n \in 0..MaxTasks :
          rawPlan \in [agents : SUBSET RawIds, tasks : [1..n -> PlanTasks]]
    /\ leadId = NoId
    /\ resolvedIds = {}
    /\ plannedAgents = <<>>
    /\ plannedTasks = <<>>
    /\ createdRuns = <<>>

\* for raw in plan.agents: r = _resolve(raw); if r: resolved_ids.add(r)
ResolveAgents ==
    /\ apc = "resolve"
    /\ resolvedIds' = {Resolve(raw) : raw \in rawPlan.agents} \ {NoId}
    /\ apc' = "agents"
    /\ UNCHANGED <<via, rawPlan, leadId, allAgents, memoryPolicy, plannedAgents, plannedTasks,
                   createdRuns>>
    /\ UNCHANGED <<sessionVars, notPlan>>

\* planned_agents = [Agent(**a) ...], the session's second attempt that skips
\* the documents that do not validate, and the fallback to all candidates
BuildAgents ==
    /\ apc = "agents"
    /\ LET valid == SelectSeq(ResolvedDocs, LAMBDA a : a.valid)
           raises == via = "rest" /\ ~AllValid(ResolvedDocs)
           chosen == FallbackAgents(valid, Agents)
           fellBack == valid = <<>>
       IN IF raises \/ ~AllValid(chosen)
          THEN /\ apc' = "raised"
               /\ UNCHANGED <<plannedAgents, resolvedIds, leadId>>
          ELSE /\ apc' = "memory"
               /\ plannedAgents' = IdsOf(chosen)
               /\ resolvedIds' = IF fellBack THEN Range(IdsOf(Agents)) ELSE resolvedIds
               /\ leadId' = IF via = "ws" THEN LeadRaw(resolvedIds') ELSE leadId
    /\ UNCHANGED <<via, rawPlan, allAgents, memoryPolicy, plannedTasks, createdRuns>>
    /\ UNCHANGED <<sessionVars, notPlan>>

\* the memory agent is appended to planned_agents when a policy names it
AddMemoryAgent ==
    /\ apc = "memory"
    /\ plannedAgents' =
          IF memoryPolicy /\ MemoryId \notin Range(plannedAgents)
             /\ \E i \in DOMAIN allAgents : allAgents[i].id = MemoryId
          THEN Append(plannedAgents, MemoryId)
          ELSE plannedAgents
    /\ apc' = "tasks"
    /\ UNCHANGED <<via, rawPlan, leadId, allAgents, memoryPolicy, resolvedIds, plannedTasks,
                   createdRuns>>
    /\ UNCHANGED <<sessionVars, notPlan>>

\* planned_tasks.append(Task(...)) of the task at `order`; prev: prev_task_id,
\* which POST /runs does not keep
PlannedTask(order, rid, prev) ==
    [id |-> Slug(order, rawPlan.tasks[order].name), agent |-> rid, order |-> order,
     contextTasks |-> IF via = "ws" /\ prev # NoId THEN <<prev>> ELSE <<>>]

RECURSIVE TaskLoop(_, _, _)
\* for order, task in enumerate(plan.tasks, start=1), from `order` on;
\* st: planned_agents, resolved_ids, planned_tasks so far, and whether
\* Agent(**ad) raised
TaskLoop(order, fallback, st) ==
    IF order > Len(rawPlan.tasks) \/ st.raised THEN st
    ELSE LET r == Resolve(rawPlan.tasks[order].agent_id)
             prev == IF st.tasks = <<>> THEN NoId ELSE st.tasks[Len(st.tasks)].id
             rid == IF r # NoId THEN r ELSE fallback
             hit == FirstMatch(Agents, LAMBDA a : a.id = rid)
             adds == rid # NoId /\ rid \notin st.ids
         IN IF adds /\ hit # 0 /\ ~Agents[hit].valid
            THEN [st EXCEPT !.raised = TRUE]
            ELSE TaskLoop(order + 1, fallback,
                    [agents |-> IF adds /\ hit # 0 THEN Append(st.agents, rid) ELSE st.agents,
                     ids |-> IF adds THEN st.ids \cup {rid} ELSE st.ids,
                     tasks |-> Append(st.tasks, PlannedTask(order, rid, prev)),
                     raised |-> FALSE])

\* fallback_id, and the loop that builds planned_tasks
BuildTasks ==
    /\ apc = "tasks"
    /\ LET fallback == IF plannedAgents # <<>> THEN plannedAgents[1] ELSE NoId
           st == TaskLoop(1, fallback,
                          [agents |-> plannedAgents, ids |-> resolvedIds,
                           tasks |-> <<>>, raised |-> FALSE])
       IN IF st.raised
          THEN /\ apc' = "raised"
               /\ UNCHANGED <<plannedAgents, resolvedIds, plannedTasks>>
          ELSE /\ apc' = "create"
               /\ plannedAgents' = st.agents
               /\ resolvedIds' = st.ids
               /\ plannedTasks' = st.tasks
    /\ UNCHANGED <<via, rawPlan, leadId, allAgents, memoryPolicy, createdRuns>>
    /\ UNCHANGED <<sessionVars, notPlan>>

\* planned_crew = Crew(agents=planned_agents, tasks=planned_tasks, ...), then
\* run_id = await sanity.create_run(crew_id=planned_crew.id, ...)
CreatePlannedRun ==
    /\ apc = "create"
    /\ createdRuns' = Append(createdRuns, [agents |-> plannedAgents, tasks |-> plannedTasks])
    /\ apc' = "done"
    /\ UNCHANGED <<via, rawPlan, leadId, allAgents, memoryPolicy, resolvedIds, plannedAgents,
                   plannedTasks>>
    /\ UNCHANGED <<sessionVars, notPlan>>

NextPlan == ResolveAgents \/ BuildAgents \/ AddMemoryAgent \/ BuildTasks \/ CreatePlannedRun

SpecPlan == InitPlan /\ [][NextPlan]_vars

\* ------------------------------------------------- planned runs over REST
\* the requests that stream one run
Streams == 1..MaxStreams

\* the statuses after which a Run is over
TerminalStatuses == {"completed", "failed", "cancelled"}

\* POST /runs returned: the Run document is pending, the planned run is kept in
\* planned_runs, waiting for answers or not
InitRest ==
    /\ SessionOff
    /\ RunnerOff
    /\ InjectOff
    /\ PlanOff
    /\ McpOff
    /\ ReplyOff
    /\ CtxOff
    /\ BridgeOff
    /\ runStatus = "pending"
    /\ plannedRun = TRUE
    /\ awaitingInput \in BOOLEAN
    /\ spc = [s \in Streams |-> "idle"]
    /\ snap = [s \in Streams |-> "none"]

\* stream_run: run = await sanity.get_run(run_id)
StreamFetch(s) ==
    /\ spc[s] = "idle"
    /\ snap' = [snap EXCEPT ![s] = runStatus]
    /\ spc' = [spc EXCEPT ![s] = "gen"]
    /\ UNCHANGED <<runStatus, plannedRun, awaitingInput>>
    /\ UNCHANGED <<sessionVars, notRest>>

\* event_generator up to the construction of the executor: the early returns
\* on run.status, on planned_runs and on awaiting_input, else the run is
\* marked running
StreamBegin(s) ==
    /\ spc[s] = "gen"
    /\ IF snap[s] \in TerminalStatuses \/ ~plannedRun \/ awaitingInput
       THEN /\ spc' = [spc EXCEPT ![s] = "done"]
            /\ UNCHANGED runStatus
       ELSE /\ spc' = [spc EXCEPT ![s] = "exec"]
            /\ runStatus' = "running"
    /\ UNCHANGED <<plannedRun, awaitingInput, snap>>
    /\ UNCHANGED <<sessionVars, notRest>>

\* the executor's complete event, its error event, or an exception out of it:
\* the status is written, then the terminal event is yielded to the client
StreamTerminal(s) ==
    /\ spc[s] = "exec"
    /\ \E event \in {"complete", "error", "raise"} :
          runStatus' = IF event = "complete" THEN "completed" ELSE "failed"
    /\ spc' = [spc EXCEPT ![s] = "term"]
    /\ UNCHANGED <<plannedRun, awaitingInput, snap>>
    /\ UNCHANGED <<sessionVars, notRest>>

\* finally: request.app.state.planned_runs.pop(run_id, None)
StreamFinally(s) ==
    /\ spc[s] = "term"
    /\ plannedRun' = FALSE
    /\ spc' = [spc EXCEPT ![s] = "done"]
    /\ UNCHANGED <<runStatus, awaitingInput, snap>>
    /\ UNCHANGED <<sessionVars, notRest>>

\* continue_run: 404 unless planned_runs holds the run
ContinueRun ==
    /\ plannedRun
    /\ awaitingInput' = FALSE
    /\ runStatus' = "pending"
    /\ UNCHANGED <<plannedRun, spc, snap>>
    /\ UNCHANGED <<sessionVars, notRest>>

NextRest ==
    \/ \E s \in Streams : StreamFetch(s)
    \/ \E s \in Streams : StreamBegin(s)
    \/ \E s \in Streams : StreamTerminal(s)
    \/ \E s \in Streams : StreamFinally(s)
    \/ ContinueRun

SpecRest == InitRest /\ [][NextRest]_vars

\* ------------------------------------------------ MCP tool-server connections
\* the transports connect_servers connects
Transports == {"stdio", "http"}

\* the Run document exists and is running; the MCP setup is about to start
InitMcp ==
    /\ SessionOff
    /\ RunnerOff
    /\ InjectOff
    /\ PlanOff
    /\ RestOff
    /\ ReplyOff
    /\ CtxOff
    /\ BridgeOff
    /\ mpc = "setup"
    /\ mcpConfigs \in UNION { [1..n -> Transports] : n \in 0..MaxServers }
    /\ mcur = 0
    /\ connections = {}
    /\ alive = {}
    /\ taskCancel = "no"

\* the run task is suspended at an await and its cancellation is requested
CancelPending == taskCancel = "requested"

\* mcp_configs = await sanity.list_mcp_servers(); an exception is logged and
\* the run goes on without MCP tools
McpList ==
    /\ mpc = "setup"
    /\ ~CancelPending
    /\ \E listed \in BOOLEAN :
          IF listed /\ mcpConfigs # <<>>
          THEN mpc' = "spawn" /\ mcur' = 1
          ELSE mpc' = "exec" /\ mcur' = 0
    /\ UNCHANGED <<mcpConfigs, connections, alive, taskCancel>>
    /\ UNCHANGED <<sessionVars, notMcp>>

\* after the server at mcur: the next server, or get_all_tools and the run
NextServer == IF mcur < Len(mcpConfigs) THEN "spawn" ELSE "exec"

\* connect_servers, the server at mcur: StdioMCPConnection.connect starts the
\* subprocess (a failure is logged and the connection is registered without a
\* process); HttpMCPConnection.connect holds nothing open
McpSpawn ==
    /\ mpc = "spawn"
    /\ ~CancelPending
    /\ IF mcpConfigs[mcur] = "stdio"
       THEN \E started \in BOOLEAN :
               IF started
               THEN /\ alive' = alive \cup {mcur}
                    /\ mpc' = "init"
                    /\ UNCHANGED <<connections, mcur>>
               ELSE /\ connections' = connections \cup {mcur}
                    /\ mpc' = NextServer
                    /\ mcur' = IF mcur < Len(mcpConfigs) THEN mcur + 1 ELSE 0
                    /\ UNCHANGED alive
       ELSE /\ connections' = connections \cup {mcur}
            /\ mpc' = NextServer
            /\ mcur' = IF mcur < Len(mcpConfigs) THEN mcur + 1 ELSE 0
            /\ UNCHANGED alive
    /\ UNCHANGED <<mcpConfigs, taskCancel>>
    /\ UNCHANGED <<sessionVars, notMcp>>

\* the initialize and tools/list requests to the subprocess returned or failed:
\* connect returns and self._connections[name] = conn
McpInitialized ==
    /\ mpc = "init"
    /\ ~CancelPending
    /\ connections' = connections \cup {mcur}
    /\ mpc' = NextServer
    /\ mcur' = IF mcur < Len(mcpConfigs) THEN mcur + 1 ELSE 0
    /\ UNCHANGED <<mcpConfigs, alive, taskCancel>>
    /\ UNCHANGED <<sessionVars, notMcp>>

\* try: async for event in runner.run_with_streaming(inputs), to its complete
\* event, its error event or an exception; then the finally block
McpExecuted ==
    /\ mpc = "exec"
    /\ ~CancelPending
    /\ mpc' = "finally"
    /\ mcur' = 0
    /\ UNCHANGED <<mcpConfigs, connections, alive, taskCancel>>
    /\ UNCHANGED <<sessionVars, notMcp>>

\* the connections disconnect_all has still to disconnect
ToDisconnect == {i \in connections : i > mcur}

\* disconnect_all: await conn.disconnect() of the next registered connection
\* (terminate, wait, kill), or self._connections.clear() after the last
McpDisconnect ==
    /\ mpc = "finally"
    /\ ~CancelPending
    /\ IF ToDisconnect # {}
       THEN LET i == CHOOSE j \in ToDisconnect : \A k \in ToDisconnect : j <= k
            IN /\ alive' = alive \ {i}
               /\ mcur' = i
               /\ UNCHANGED <<mpc, connections>>
       ELSE /\ connections' = {}
            /\ mpc' = "done"
            /\ mcur' = 0
            /\ UNCHANGED alive
    /\ UNCHANGED <<mcpConfigs, taskCancel>>
    /\ UNCHANGED <<sessionVars, notMcp>>

\* the client disconnects: the session's finally block cancels the run task
\* that is not done
TaskCancelRequest ==
    /\ mpc # "done"
    /\ taskCancel = "no"
    /\ taskCancel' = "requested"
    /\ UNCHANGED <<mpc, mcpConfigs, mcur, connections, alive>>
    /\ UNCHANGED <<sessionVars, notMcp>>

\* CancelledError is raised at the await the run task is suspended at: inside
\* the try block it runs the finally block; before it (the MCP setup) and
\* inside disconnect_all it ends the task, as except Exception does not catch it
TaskCancelled ==
    /\ CancelPending
    /\ taskCancel' = "delivered"
    /\ IF mpc = "exec"
       THEN mpc' = "finally" /\ mcur' = 0
       ELSE mpc' = "done" /\ UNCHANGED mcur
    /\ UNCHANGED <<mcpConfigs, connections, alive>>
    /\ UNCHANGED <<sessionVars, notMcp>>

NextMcp ==
    \/ McpList
    \/ McpSpawn
    \/ McpInitialized
    \/ McpExecuted
    \/ McpDisconnect
    \/ TaskCancelRequest
    \/ TaskCancelled

SpecMcp == InitMcp /\ [][NextMcp]_vars

\* ------------------------------------------------------ the quick reply
\* len(candidate) < 3: names and roles too short to count as a mention
MinMentionLen == 3

\* two agents of a crew
AnnAgent == [id |-> <<"i", "-", "n">>, name |-> <<"A", "n", "n", SP>>, role |-> <<"W", SP, "r">>]

AnnaAgent == [id |-> <<"i", "-", "a">>, name |-> <<"A", "d">>, role |-> <<"A", "n", "n", "a">>]

\* the crews plan assembly leaves in active_crew_agents
Crews == { <<AnnAgent>>, <<AnnaAgent>>, <<AnnAgent, AnnaAgent>>, <<AnnaAgent, AnnAgent>> }

\* the texts of a user message: no mention, a short name, a name, a role that
\* contains another agent's name, one agent's name and role
Messages ==
    { <<"h", "i">>, <<"a", "d">>, <<"A", "n", "n">>, <<"a", "n", "n", "a">>,
      <<"w", SP, "r", SP, "A", "n", "n">> }

\* (agent_cfg.get(key) or "").strip() for key in ("name", "role"), agent by agent
MentionCandidates(agents) ==
    [k \in 1..(2 * Len(agents)) |->
        LET agent == agents[(k + 1) \div 2]
        IN [agent |-> agent,
            candidate |-> Strip(IF k % 2 = 1 THEN agent.name ELSE agent.role)]]

RECURSIVE FindFrom(_, _, _, _, _)
\* the loops of _find_mentioned_agent from the k-th candidate on
FindFrom(k, cands, msgLower, best, bestLen) ==
    IF k > Len(cands) THEN best
    ELSE LET candidate == cands[k].candidate IN
         IF candidate = <<>> \/ Len(candidate) < MinMentionLen
         THEN FindFrom(k + 1, cands, msgLower, best, bestLen)
         ELSE IF IsSubstr(Lower(candidate), msgLower) /\ Len(candidate) > bestLen
         THEN FindFrom(k + 1, cands, msgLower, cands[k].agent, Len(candidate))
         ELSE FindFrom(k + 1, cands, msgLower, best, bestLen)

FindMentionedAgent_None(text) == NoAgent

\* _find_mentioned_agent(message)
FindMentionedAgent(text) ==
    IF activeCrewAgents = <<>> THEN NoAgent
    ELSE FindFrom(1, MentionCandidates(activeCrewAgents), Lower(text), NoAgent, 0)

\* _agent_reply: name = agent_config.get("name") or agent_config.get("role") or "Agent"
ReplyName(agent) ==
    IF agent.name # <<>> THEN agent.name
    ELSE IF agent.role # <<>> THEN agent.role
    ELSE AgentLabel

\* an accepted user message is about to be routed; before plan assembly there
\* is neither a crew nor a lead agent
InitReply ==
    /\ SessionOff
    /\ RunnerOff
    /\ InjectOff
    /\ PlanOff
    /\ RestOff
    /\ McpOff
    /\ CtxOff
    /\ BridgeOff
    /\ qpc = "route"
    /\ message \in Messages
    /\ \E assembled \in BOOLEAN :
          IF assembled
          THEN /\ activeCrewAgents \in Crews
               /\ leadAgentConfig \in {AnnAgent, AnnaAgent}
          ELSE /\ activeCrewAgents = <<>>
               /\ leadAgentConfig = NoAgent
    /\ questionPending \in BOOLEAN
    /\ runInFlight \in BOOLEAN
    /\ responder = NoAgent
    /\ replySent = <<>>
    /\ replyStored = <<>>

\* mentioned or lead_agent_config
Responder ==
    IF FindMentionedAgent(message) # NoAgent
    THEN FindMentionedAgent(message)
    ELSE leadAgentConfig

\* the routing of the receive loop: answer the pending question, else reply
\* during the run, else reply after a run, else start a run
QuickRoute ==
    /\ qpc = "route"
    /\ IF questionPending
       THEN qpc' = "answered" /\ UNCHANGED responder
       ELSE IF runInFlight
       THEN IF Responder # NoAgent
            THEN qpc' = "reply" /\ responder' = Responder
            ELSE qpc' = "done" /\ UNCHANGED responder
       ELSE IF leadAgentConfig # NoAgent
       THEN qpc' = "reply" /\ responder' = Responder
       ELSE qpc' = "started" /\ UNCHANGED responder
    /\ UNCHANGED <<message, activeCrewAgents, leadAgentConfig, questionPending,
                   runInFlight, replySent, replyStored>>
    /\ UNCHANGED <<sessionVars, notReply>>

\* get_conversation (an exception ends the session), _agent_reply, then send
QuickSend ==
    /\ qpc = "reply"
    /\ \E read \in BOOLEAN :
          IF read
          THEN /\ replySent' = Append(replySent,
                                      [type |-> "agent_message", sender |-> ReplyName(responder),
                                       isReply |-> TRUE])
               /\ qpc' = "persist"
          ELSE /\ qpc' = "closed"
               /\ UNCHANGED replySent
    /\ UNCHANGED <<message, activeCrewAgents, leadAgentConfig, questionPending,
                   runInFlight, responder, replyStored>>
    /\ UNCHANGED <<sessionVars, notReply>>

\* append_message of the quick reply
QuickPersist ==
    /\ qpc = "persist"
    /\ replyStored' = Append(replyStored,
                             [type |-> "message", sender |-> ReplyName(responder),
                              isReply |-> TRUE])
    /\ qpc' = "done"
    /\ UNCHANGED <<message, activeCrewAgents, leadAgentConfig, questionPending,
                   runInFlight, responder, replySent>>
    /\ UNCHANGED <<sessionVars, notReply>>

NextReply == QuickRoute \/ QuickSend \/ QuickPersist

SpecReply == InitReply /\ [][NextReply]_vars

\* ------------------- context carried between Runs: _build_conversation_context
\* frames of filler between the two ends of a stored transcript
MaxFill == 9

\* entries at the head, and at the tail, of a stored transcript
MaxEdge == 1

\* significant[-8:]
ContextTail == 8

\* len(content) > 2000
TruncateAt == 2000

\* "Run completed"
RunCompletedNeedle == <<"R", "u", "n", SP, "c", "o", "m", "p", "l", "e", "t", "e", "d">>

\* the transcript entries the session stores: a user message, an answer, a
\* question, a relayed agent message with and without content, the marker
TranscriptKinds ==
    { [sender |-> "user", type |-> "message", content |-> <<"h", "i">>],
      [sender |-> "user", type |-> "answer", content |-> <<"y">>],
      [sender |-> "system", type |-> "question", content |-> <<"?">>],
      [sender |-> "Agent", type |-> "agent_message", content |-> <<"o">>],
      [sender |-> "Agent", type |-> "agent_message", content |-> <<>>],
      [sender |-> "system", type |-> "system", content |-> RunCompletedNeedle \o <<".">>] }

\* a quick reply of an agent
FillEntry == [sender |-> "Agent", type |-> "message", content |-> <<"r">>]

Fill(n) == [i \in 1..n |-> FillEntry]

Edges(n) == UNION { [1..k -> TranscriptKinds] : k \in 0..n }

\* f"[{sender}]: {content}"
Line(sender, content) == [sender |-> sender, content |-> content]

\* content[:2000] + "\n... [truncated]"
Truncate(content) ==
    IF Len(content) > TruncateAt
    THEN SubSeq(content, 1, TruncateAt) \o <<"\n... [truncated]">>
    ELSE content

\* mtype == "system" and "Run completed" in (content or "")
IsCompletion(m) == m.type = "system" /\ IsSubstr(RunCompletedNeedle, m.content)

RECURSIVE WalkBack(_, _, _)
\* for m in reversed(msgs), from index i down: post_summary_user_msgs
WalkBack(msgs, i, acc) ==
    IF i = 0 \/ IsCompletion(msgs[i]) THEN acc
    ELSE WalkBack(msgs, i - 1,
             IF msgs[i].sender = "user" /\ msgs[i].content # <<>>
             THEN Append(acc, Line("user", msgs[i].content)) ELSE acc)

\* list.reverse()
Reverse(s) == [i \in DOMAIN s |-> s[Len(s) + 1 - i]]

\* the test and the line of the fallback loop
IsSignificant(m) ==
    /\ m.content # <<>>
    /\ m.type \notin {"thinking", "status", "system", "question"}
    /\ (m.sender = "user" \/ m.type \in {"message", "agent_message"})

Significant(msgs) ==
    LET kept == SelectSeq(msgs, IsSignificant)
    IN [i \in DOMAIN kept |-> Line(kept[i].sender, Truncate(kept[i].content))]

LastN_Head(s, n) == IF Len(s) > n THEN SubSeq(s, 1, n) ELSE s

\* s[-n:]
LastN(s, n) == IF Len(s) > n THEN SubSeq(s, Len(s) - n + 1, Len(s)) ELSE s

\* the string _build_conversation_context returns, by its parts: the summary
\* under its heading, and the lines under theirs or joined
BuildConversationContext(c) ==
    IF ~c.found THEN [summary |-> <<>>, lines |-> <<>>]
    ELSE IF c.lastRunSummary # <<>>
    THEN [summary |-> c.lastRunSummary,
          lines |-> Reverse(WalkBack(c.messages, Len(c.messages), <<>>))]
    ELSE [summary |-> <<>>, lines |-> LastN(Significant(c.messages), ContextTail)]

\* the Conversation document a new Run reads
InitCtx ==
    /\ SessionOff
    /\ RunnerOff
    /\ InjectOff
    /\ PlanOff
    /\ RestOff
    /\ McpOff
    /\ ReplyOff
    /\ BridgeOff
    /\ bpc = "read"
    /\ \E found \in BOOLEAN, s \in {<<>>, <<"s">>}, n \in 0..MaxFill,
          head \in Edges(MaxEdge), tail \in Edges(MaxEdge + 1) :
          /\ (~found => (s = <<>> /\ n = 0 /\ head = <<>> /\ tail = <<>>))
          /\ conv = [found |-> found, lastRunSummary |-> s,
                     messages |-> head \o Fill(n) \o tail]
    /\ convContext = [summary |-> <<>>, lines |-> <<>>]

\* conversation_context = await _build_conversation_context()
BuildContext ==
    /\ bpc = "read"
    /\ convContext' = BuildConversationContext(conv)
    /\ bpc' = "convContext"
    /\ UNCHANGED conv
    /\ UNCHANGED <<sessionVars, notCtx>>

NextCtx == BuildContext

SpecCtx == InitCtx /\ [][NextCtx]_vars

\* ------------------------------ the bridge from the worker thread to the loop
MaxWrites == 3

NL == "\n"

\* what one call of write() is given
Chunks == { <<"a">>, <<"b", NL>>, <<NL, "a", NL, "b">> }

\* a callback queued with loop.call_soon_threadsafe
Callback(op, arg) == [op |-> op, arg |-> arg]

RECURSIVE SplitBuffer(_)
\* the loop of write(): while "\n" in buffer, line, buffer = buffer.split("\n", 1)
SplitBuffer(buf) ==
    IF NL \notin Range(buf) THEN [lines |-> <<>>, rest |-> buf]
    ELSE LET i == CHOOSE k \in DOMAIN buf :
                      buf[k] = NL /\ \A j \in 1..(k - 1) : buf[j] # NL
             r == SplitBuffer(SubSeq(buf, i + 1, Len(buf)))
         IN [lines |-> << SubSeq(buf, 1, i - 1) >> \o r.lines, rest |-> r.rest]

\* stream_queue.put_nowait for each line, in order
PutCallbacks(lines) == [i \in DOMAIN lines |-> Callback("put", lines[i])]

LoopGoesOn_NoQueue == kickoffFuture = "pending"

LoopGoesOn_Always == TRUE

\* not kickoff_future.done() or not stream_queue.empty()
LoopGoesOn == kickoffFuture = "pending" \/ streamQueue # <<>>

\* loop.run_in_executor(None, run_kickoff) has been called
InitBridge ==
    /\ SessionOff
    /\ RunnerOff
    /\ InjectOff
    /\ PlanOff
    /\ RestOff
    /\ McpOff
    /\ ReplyOff
    /\ CtxOff
    /\ wpc = "kickoff"
    /\ buffer = <<>>
    /\ ready = <<>>
    /\ streamQueue = <<>>
    /\ kickoffResult = "none"
    /\ kickoffFuture = "pending"
    /\ lpc = "loop"
    /\ terminal = "none"
    /\ nwrites = 0
    /\ written = <<>>
    /\ processed = <<>>

\* StreamToQueue.write(s), called by the execution library on the worker thread
WorkerWrite ==
    /\ wpc = "kickoff"
    /\ nwrites < MaxWrites
    /\ \E s \in Chunks :
        LET r == SplitBuffer(buffer \o s) IN
        /\ buffer' = r.rest
        /\ ready' = ready \o PutCallbacks(r.lines)
        /\ written' = written \o s
    /\ nwrites' = nwrites + 1
    /\ UNCHANGED <<wpc, streamQueue, kickoffResult, kickoffFuture, lpc, terminal,
                   processed>>
    /\ UNCHANGED <<sessionVars, notBridge>>

\* crew.kickoff returns or raises
WorkerEnd ==
    /\ wpc = "kickoff"
    /\ \E r \in {"returned", "raised"} : kickoffResult' = r
    /\ wpc' = "flush"
    /\ UNCHANGED <<buffer, ready, streamQueue, kickoffFuture, lpc, terminal, nwrites,
                   written, processed>>
    /\ UNCHANGED <<sessionVars, notBridge>>

\* the finally of run_kickoff: stream.flush()
WorkerFlush ==
    /\ wpc = "flush"
    /\ ready' = IF buffer # <<>> THEN Append(ready, Callback("put", buffer)) ELSE ready
    /\ buffer' = <<>>
    /\ wpc' = "set"
    /\ UNCHANGED <<streamQueue, kickoffResult, kickoffFuture, lpc, terminal, nwrites,
                   written, processed>>
    /\ UNCHANGED <<sessionVars, notBridge>>

\* stream_done.set(); run_kickoff is over, and the executor hands its outcome to
\* kickoff_future with a callback on the loop
WorkerReturn ==
    /\ wpc = "set"
    /\ ready' = Append(ready, Callback("set_state", <<>>))
    /\ wpc' = "exit"
    /\ UNCHANGED <<buffer, streamQueue, kickoffResult, kickoffFuture, lpc, terminal,
                   nwrites, written, processed>>
    /\ UNCHANGED <<sessionVars, notBridge>>

\* the event loop runs the callback that was queued first
LoopCallback ==
    /\ ready # <<>>
    /\ ready' = Tail(ready)
    /\ IF Head(ready).op = "put"
       THEN /\ streamQueue' = Append(streamQueue, Head(ready).arg)
            /\ UNCHANGED kickoffFuture
       ELSE /\ kickoffFuture' = kickoffResult
            /\ UNCHANGED streamQueue
    /\ UNCHANGED <<wpc, buffer, kickoffResult, lpc, terminal, nwrites, written, processed>>
    /\ UNCHANGED <<sessionVars, notBridge>>

\* one iteration of the streaming loop that gets a line: wait_for(stream_queue.get())
\* (an iteration that times out on the empty queue changes nothing)
GetLine ==
    /\ lpc = "loop"
    /\ LoopGoesOn
    /\ streamQueue # <<>>
    /\ processed' = Append(processed, Head(streamQueue))
    /\ streamQueue' = Tail(streamQueue)
    /\ UNCHANGED <<wpc, buffer, ready, kickoffResult, kickoffFuture, lpc, terminal,
                   nwrites, written>>
    /\ UNCHANGED <<sessionVars, notBridge>>

\* the loop condition is false: the loop is left
LoopExit ==
    /\ lpc = "loop"
    /\ ~LoopGoesOn
    /\ lpc' = "await"
    /\ UNCHANGED <<wpc, buffer, ready, streamQueue, kickoffResult, kickoffFuture,
                   terminal, nwrites, written, processed>>
    /\ UNCHANGED <<sessionVars, notBridge>>

\* result = await kickoff_future, then the complete event; or the exception of
\* the worker, the error event, and raise
YieldTerminal ==
    /\ lpc = "await"
    /\ kickoffFuture # "pending"
    /\ terminal' = IF kickoffFuture = "returned" THEN "complete" ELSE "error"
    /\ lpc' = "done"
    /\ UNCHANGED <<wpc, buffer, ready, streamQueue, kickoffResult, kickoffFuture,
                   nwrites, written, processed>>
    /\ UNCHANGED <<sessionVars, notBridge>>

NextBridge ==
    \/ WorkerWrite
    \/ WorkerEnd
    \/ WorkerFlush
    \/ WorkerReturn
    \/ LoopCallback
    \/ GetLine
    \/ LoopExit
    \/ YieldTerminal

SpecBridge == InitBridge /\ [][NextBridge]_vars

\* the worker thread runs on once crew.kickoff is over, the event loop runs the
\* callbacks queued on it, and the generator is resumed by its consumer: the get
\* of a line present, the test of the loop after a timeout, the await of the
\* future that is done
SpecBridgeFair ==
    /\ SpecBridge
    /\ WF_vars(WorkerFlush)
    /\ WF_vars(WorkerReturn)
    /\ WF_vars(LoopCallback)
    /\ WF_vars(GetLine)
    /\ WF_vars(LoopExit)
    /\ WF_vars(YieldTerminal)

\* ------------------------------------------------------------ properties

IsUserEntry(m) == m.sender = "user"

UserEntries == SelectSeq(messages, IsUserEntry)

\* the receive loop takes its routing step
Routes == rlpc = "route" /\ rlpc' # "route"

\* C1: while a Run task is in flight, further user messages start no second Run
\* task and create no second Run document: at most one Run task is unfinished
\* and at most one Run document is running.
SingleActiveRun ==
    /\ activeRuns <= 1
    /\ Cardinality({i \in DOMAIN runs : runs[i] = "running"}) <= 1

\* a second accepted user message was routed while the first Run was executing
SingleActiveRun_Witness ==
    /\ runpc = "exec"
    /\ outcome = "none"
    /\ runs = <<"running">>
    /\ activeRuns = 1
    /\ naccepted = 2
    /\ rlpc = "recv"
    /\ cur.type = "user_message"

\* the _ask_user call for question qid has sent the question and has neither
\* returned nor timed out
AskSuspended ==
    \/ runpc \in {"ask_persist", "ask_status"}
    \/ runpc = "ask_wait" /\ pending[qid].st = "waiting"

\* C2: once the question event carrying questionId q is sent, an inbound frame
\* whose questionId is q, routed before the deadline, resolves the ask for q with
\* the frame's content, in every interleaving.
AnswerResolvesAsk ==
    [][ (Routes /\ cur.qid # AbsentQ /\ cur.qid = qid /\ AskSuspended)
        => (qid \in DOMAIN pending' /\ pending'[qid] = Future("result", cur.content))
      ]_vars

\* C3: with exactly one question pending, a frame whose questionId is absent or
\* does not match resolves that question with the frame's (trimmed) content, is
\* not routed to a quick reply or a new Run, and the ask returns that content.
FallbackMatch ==
    [][ /\ ( ( /\ Routes
               /\ Cardinality(DOMAIN pending) = 1
               /\ Waiting = DOMAIN pending
               /\ cur.qid \notin DOMAIN pending )
             => ( /\ \A q \in DOMAIN pending :
                        /\ q \in DOMAIN pending'
                        /\ pending'[q] = Future("result", cur.content)
                  /\ cur.content # <<>>
                  /\ rlpc' = "recv"
                  /\ runpc' = runpc
                  /\ activeRuns' = activeRuns
                  /\ sent' = sent ) )
        /\ ( (runpc = "ask_wait" /\ runpc' = "ask_active")
             => askResult' = pending[qid].val )
      ]_vars

\* an ask returned the content of a frame that carried a questionId no question has
FallbackMatch_Witness ==
    /\ runpc = "ask_active"
    /\ rlpc = "recv"
    /\ naccepted = 2
    /\ cur.qid = -1
    /\ cur.content # <<>>
    /\ askResult = cur.content

\* the Run task ended on the timeout of a question
TimedOut == runpc = "done" /\ outcome = "timeout"

TimeoutError == Out("error", <<"Timed out waiting for answer">>, AbsentQ)

\* the receive loop is not blocked: it can take the next frame
LoopAccepts == (rlpc = "recv" /\ nrecv < MaxInbound) => ENABLED Receive

FailureLeavesActive ==
    (runpc = "done"
       /\ outcome \in {"timeout", "planning_failed", "exec_error", "exception"})
    => convStatus = "active"

\* C6: a user message routed while no Run task is in flight and no question is
\* pending starts a new Run, also after an earlier Run on the connection ended.
IdleStartsRun ==
    [][ (Routes /\ ~RunInFlight /\ DOMAIN pending = {} /\ cur.type = "user_message")
        => (runpc' = "start" /\ activeRuns' = activeRuns + 1)
      ]_vars

\* C7: on connection loss every future that is not done is cancelled and an
\* in-flight Run task is cancelled, so no ask stays suspended, and nothing the
\* handler does (nor the cancellation it causes) writes the Conversation status.
DisconnectCancels ==
    [][ rlpc' = "closed"
        => ( /\ Waiting' = {}
             /\ (RunInFlight' => cancelReq')
             /\ convStatus' = convStatus )
      ]_vars

\* the connection was lost while an ask was suspended
DisconnectCancels_Witness ==
    /\ rlpc = "closed"
    /\ runpc = "ask_wait"
    /\ cancelReq
    /\ pending[qid].st = "cancelled"
    /\ convStatus = "awaiting_input"

\* C8: once a disconnect during execution is handled (the Run task is cancelled),
\* the worker thread no longer executes the crew.
WorkerStopsOnDisconnect ==
    (rlpc = "closed" /\ ~RunInFlight) => worker # "running"

\* the entries the replay is to send, as the claim lists them
ClaimKeeps(m) ==
    /\ m.content # <<>>
    /\ m.type \notin {"thinking", "tool_call", "tool_result", "status", "system"}

\* the stored entries the replay loop has visited
Visited == SubSeq(messages, 1, rpos - 1)

\* C9: the replay sends no entry of a live-only type; it sends exactly the stored
\* entries with non-empty content and another type, in transcript order, each with
\* its stored timestamp and replayed = true (up to the entry whose send fails, if
\* the client goes away during the replay).
ReplayExact ==
    LET kept == SelectSeq(Visited, ClaimKeeps) IN
    /\ Len(sent) = Len(kept)
    /\ \A i \in DOMAIN sent :
        /\ sent[i].content = kept[i].content
        /\ sent[i].sender = kept[i].sender
        /\ sent[i].timestamp = kept[i].timestamp
        /\ sent[i].replayed = TRUE
    /\ ( (rlpc = "recv" /\ Len(sent) < Len(SelectSeq(messages, ClaimKeeps)))
         => (rpos <= Len(messages) /\ ClaimKeeps(messages[rpos])) )

\* a finished replay that skipped a live-only entry with content and sent another
ReplayExact_Witness ==
    /\ rlpc = "recv"
    /\ rpos = Len(messages) + 1
    /\ Len(messages) = 2
    /\ messages[1].type = "system"
    /\ messages[1].content # <<>>
    /\ Len(sent) = 1
    /\ sent[1].timestamp = messages[2].timestamp

Durable == { <<"?">>, <<"out">>, <<"reply">> }

IsDurableOut(o) == o.content \in Durable /\ o.type \in {"question", "agent_message"}

IsDurableEntry(m) == m.content \in Durable /\ m.sender # "user"

ContentsOf(seq) == [i \in DOMAIN seq |-> seq[i].content]

RECURSIVE IsSubSeq(_, _)
IsSubSeq(a, b) ==
    IF a = <<>> THEN TRUE
    ELSE IF b = <<>> THEN FALSE
    ELSE IF Head(a) = Head(b) THEN IsSubSeq(Tail(a), Tail(b))
    ELSE IsSubSeq(a, Tail(b))

\* C11: the questions, relayed agent messages and quick replies are appended to
\* the transcript in the order they were streamed to the client, in every
\* interleaving of the receive loop with the Run task.
StreamOrderIsStoreOrder ==
    IsSubSeq(ContentsOf(SelectSeq(messages, IsDurableEntry)),
             ContentsOf(SelectSeq(sent, IsDurableOut)))

\* the invocation of run_with_streaming is over
RunnerOver == gpc \in {"done", "raised"}

\* C12: every invocation of the executor yields run_started first and exactly one
\* terminal event (complete or error) last, with only agent_message events in
\* between, whether the execution library returns or raises and whether or not
\* building the crew succeeds.
OneTerminalEvent ==
    RunnerOver =>
        /\ Len(yielded) >= 2
        /\ yielded[1].event = "run_started"
        /\ yielded[Len(yielded)].event \in {"complete", "error"}
        /\ \A i \in 2..(Len(yielded) - 1) : yielded[i].event = "agent_message"

\* how many agent_message events of type message carry the content c
CountOf(c) ==
    Cardinality({i \in DOMAIN yielded :
                    /\ yielded[i].event = "agent_message"
                    /\ yielded[i].type = "message"
                    /\ yielded[i].content = c})

\* how often a Final Answer block with the buffered content c was completed
TimesCompleted(c) == Cardinality({i \in DOMAIN completed : completed[i] = c})

\* C13 as stated: a Final Answer block that is completed twice or more with the
\* same buffered content is emitted as exactly one agent_message of type message.
DedupExactlyOne ==
    \A c \in Range(completed) : TimesCompleted(c) >= 2 => CountOf(c) = 1

\* C13 as amended: however often a Final Answer block with the same buffered
\* content is completed, at most one agent_message of type message is emitted for
\* it: exactly one if an occurrence was completed under an agent other than the
\* memory agent or flushed when the narration ended, none if every occurrence was
\* completed under the memory agent.
DedupAtMostOne ==
    \A c \in Range(completed) : CountOf(c) = (IF c \in emittedHashes THEN 1 ELSE 0)

\* the same block was completed twice and emitted once
DedupAtMostOne_Witness ==
    /\ gpc = "done"
    /\ \E c \in Range(completed) : TimesCompleted(c) >= 2 /\ CountOf(c) = 1

\* the label names the memory agent: its name or its role, in any case
IsMemoryLabel(l) ==
    /\ policy
    /\ Lower(l) \in {Lower(MemoryAgent.name), Lower(MemoryAgent.role)}

\* the messages the session streamed or stored that come from an agent
AgentOutput ==
    {sent[i] : i \in DOMAIN sent} \cup {messages[i] : i \in DOMAIN messages}

\* C20: no message whose sender is the memory agent is streamed to the client or
\* appended to the transcript, and the memory agent is not in the roster of the
\* "Crew assembled" message, for any narration.
MemoryAgentHidden ==
    \A o \in AgentOutput :
        /\ ~IsMemoryLabel(o.sender)
        /\ (o.sender = SystemLabel /\ o.type = "agent_message")
              => \A i \in DOMAIN o.content : ~IsMemoryLabel(o.content[i])

\* the executor yielded a message of the memory agent (the residual flush does
\* not test the agent) and the session did not relay it
MemoryAgentHidden_Witness ==
    /\ gpc = "done"
    /\ policy
    /\ \E i \in DOMAIN yielded :
          yielded[i].event = "agent_message" /\ IsMemoryLabel(yielded[i].agent)
    /\ \E i \in DOMAIN sent :
          sent[i].sender = SystemLabel /\ sent[i].type = "agent_message"

\* the injected summary tasks of the returned list
Synthetic == SelectSeq(injected, LAMBDA t : t.name = "Memory Summary")

\* a call with a memory agent configured has returned
Injected(n) == ipc = "out" /\ memoryAgentId # <<>> /\ Len(tasksIn) = n

\* C14 as stated: with a memory agent configured, a plan of 2 tasks or fewer gets
\* no synthetic task; a plan of 3 tasks gets exactly one, whose sole predecessor
\* is task 1.
OneSummaryForThree ==
    /\ \A n \in 0..2 : Injected(n) => Synthetic = <<>>
    /\ Injected(3) =>
          /\ Len(Synthetic) = 1
          /\ Synthetic[1].contextTasks = << SortedByOrder(tasksIn)[1].id >>

\* C14 as amended: with a memory agent configured, a plan of 2 tasks or fewer gets
\* no synthetic task; a plan of 3 tasks gets exactly two, one before task 2 whose
\* sole predecessor is task 1 and one before task 3 whose sole predecessor is
\* task 2 (tasks taken in their order).
TwoSummariesForThree ==
    /\ \A n \in 0..2 : Injected(n) => Synthetic = <<>> /\ Len(injected) = n
    /\ Injected(3) =>
          LET sorted == SortedByOrder(tasksIn) IN
          /\ Len(Synthetic) = 2
          /\ Len(injected) = 5
          /\ Synthetic[1].contextTasks = << sorted[1].id >>
          /\ Synthetic[2].contextTasks = << sorted[2].id >>
          /\ injected[2] = Synthetic[1]
          /\ injected[4] = Synthetic[2]
          /\ \A i \in DOMAIN Synthetic : Synthetic[i].agent = memoryAgentId

\* a plan of three tasks, not given in their order, went through the injection
TwoSummariesForThree_Witness ==
    /\ Injected(3)
    /\ tasksIn[1].order > tasksIn[2].order
    /\ Len(injected) = 5

\* the plan's agent identifiers resolve to no candidate
NoneResolved == \A raw \in rawPlan.agents : Resolve(raw) = NoId

\* the assembly is past the construction of planned_agents
AgentsBuilt == apc \in {"memory", "tasks", "create", "done"}

\* C15 as stated: for any raw plan whose agent identifiers resolve to no
\* candidate, and a non-empty candidate list, plan assembly yields a Plan whose
\* agent set contains all candidates; no Plan has an empty agent set.
FallbackUsesAllCandidates ==
    (NoneResolved /\ Agents # <<>> /\ apc \notin {"resolve", "agents"}) =>
        /\ apc # "raised"
        /\ Range(IdsOf(Agents)) \subseteq Range(plannedAgents)
        /\ plannedAgents # <<>>

\* C15 as amended: for any raw plan whose agent identifiers resolve to no
\* candidate, and a non-empty candidate list of documents that all validate as
\* agents, plan assembly yields a Plan whose agent set contains all candidates;
\* when a candidate document does not validate, assembly raises and no Run is
\* created; with a non-empty candidate list no Plan has an empty agent set.
FallbackUsesValidCandidates ==
    /\ (NoneResolved /\ Agents # <<>> /\ apc \notin {"resolve", "agents"}) =>
          IF AllValid(Agents)
          THEN /\ apc # "raised"
               /\ Range(IdsOf(Agents)) \subseteq Range(plannedAgents)
          ELSE apc = "raised" /\ createdRuns = <<>>
    /\ (Agents # <<>> /\ AgentsBuilt) => plannedAgents # <<>>
    /\ (Agents # <<>>) => \A i \in DOMAIN createdRuns : createdRuns[i].agents # <<>>

\* a Run was created for a plan naming only an unknown agent, with two candidates
FallbackUsesValidCandidates_Witness ==
    /\ apc = "done"
    /\ rawPlan.agents = {<<"z">>}
    /\ NoneResolved
    /\ Len(Agents) = 2
    /\ Len(createdRuns) = 1
    /\ Range(IdsOf(Agents)) \subseteq Range(createdRuns[1].agents)

\* C16: a raw plan with zero tasks is rejected as a validation error before any
\* Run is created.
EmptyPlanRejected ==
    (rawPlan.tasks = <<>>) => (apc \notin {"create", "done"} /\ createdRuns = <<>>)

\* pending, then running, then a terminal status
StatusRank(st) == CASE st = "pending" -> 0 [] st = "running" -> 1 [] OTHER -> 2

\* C17: a Run's status only moves along pending, running, then one of
\* completed, failed, cancelled: no operation writes an earlier status, and
\* once the status is terminal no operation writes a different one.
StatusMonotonic ==
    [][ /\ StatusRank(runStatus') >= StatusRank(runStatus)
        /\ (runStatus \in TerminalStatuses) => (runStatus' = runStatus) ]_vars

\* C18: the MCP connections opened for a Run are disconnected once the Run is
\* over, whatever its outcome (cancellation by client disconnect included):
\* no tool-server subprocess is left running.
AlwaysDisconnected ==
    (mpc = "done") => (alive = {})

\* the names and roles of the crew that occur in the message, ignoring case,
\* among those of at least n characters
Mentions(n) ==
    { c \in Range(MentionCandidates(activeCrewAgents)) :
        Len(c.candidate) >= n /\ IsSubstr(Lower(c.candidate), Lower(message)) }

\* the agents the reply may come from: those with a longest mention, else the lead
Responders(n) ==
    IF Mentions(n) = {} THEN {leadAgentConfig}
    ELSE { c.agent : c \in { d \in Mentions(n) :
                               \A e \in Mentions(n) : Len(e.candidate) <= Len(d.candidate) } }

\* the message came while the Run was in flight with no question pending, and
\* its handling is over
Interjected == qpc = "done" /\ runInFlight /\ ~questionPending

\* one reply was streamed and the same reply appended, from one of `agents`
OneReplyFrom(agents) ==
    /\ Len(replySent) = 1
    /\ Len(replyStored) = 1
    /\ replySent[1].sender = replyStored[1].sender
    /\ \E a \in agents : a # NoAgent /\ replySent[1].sender = ReplyName(a)

InjectionActive == ipc = "out" /\ memoryAgentId # <<>> /\ Len(tasksIn) > SimplePlanMax

\* the real tasks of the returned list
RealTasks == SelectSeq(injected, LAMBDA t : t.name # "Memory Summary")

\* the `order` the real task with this id had in the list given to the injection
InputOrder(id) == (CHOOSE i \in DOMAIN tasksIn : tasksIn[i].id = id)

\* the real tasks are returned by ascending `order`, tasks of equal `order` in
\* the sequence they were given
KeepsOrder ==
    \A j, k \in DOMAIN RealTasks :
        j < k =>
            \/ tasksIn[InputOrder(RealTasks[j].id)].order < tasksIn[InputOrder(RealTasks[k].id)].order
            \/ /\ tasksIn[InputOrder(RealTasks[j].id)].order = tasksIn[InputOrder(RealTasks[k].id)].order
               /\ InputOrder(RealTasks[j].id) < InputOrder(RealTasks[k].id)

\* C21: when memory injection is active, a plan of n real tasks gets exactly
\* n-1 synthetic tasks, one immediately before every real task but the first,
\* each assigned to the memory agent and with the preceding real task's
\* identifier as its sole predecessor.
SummaryBeforeEachButFirst ==
    InjectionActive =>
        /\ Len(RealTasks) = Len(tasksIn)
        /\ Len(Synthetic) = Len(tasksIn) - 1
        /\ Len(injected) = 2 * Len(tasksIn) - 1
        /\ injected[1] = RealTasks[1]
        /\ \A k \in 2..Len(tasksIn) :
              /\ injected[2 * k - 2] = Synthetic[k - 1]
              /\ injected[2 * k - 1] = RealTasks[k]
              /\ Synthetic[k - 1].agent = memoryAgentId
              /\ Synthetic[k - 1].contextTasks = << RealTasks[k - 1].id >>
        /\ KeepsOrder

\* three tasks given out of order went through an active injection
SummaryBeforeEachButFirst_Witness ==
    /\ InjectionActive
    /\ Len(tasksIn) = 3
    /\ tasksIn[1].order > tasksIn[3].order
    /\ Len(Synthetic) = 2
    /\ Synthetic[2].contextTasks # Synthetic[1].contextTasks

\* C22: after memory injection every real task other than the first points at
\* its synthetic task instead of the previous real task, whose identifier is no
\* longer among its predecessors.
PredecessorRewritten ==
    InjectionActive =>
        \A k \in 2..Len(RealTasks) :
            /\ Synthetic[k - 1].id \in Range(RealTasks[k].contextTasks)
            /\ RealTasks[k - 1].id \notin Range(RealTasks[k].contextTasks)

\* the list given has order i at position i, as both assemblers build it
PlannerOrdered == \A i \in DOMAIN tasksIn : tasksIn[i].order = i

\* C23: the list memory injection returns has the `order` values 1, 2, ..., m
\* in list position, the real tasks keep their relative order, and the sort by
\* `order` in build_crew leaves the list unchanged (for the lists the
\* assemblers build, and for any list when the injection is active).
OrdersIncrease ==
    (ipc = "out" /\ (InjectionActive \/ PlannerOrdered)) =>
        /\ \A i \in DOMAIN injected : injected[i].order = i
        /\ KeepsOrder
        /\ Len(RealTasks) = Len(tasksIn)
        /\ (PlannerOrdered => \A i \in DOMAIN tasksIn : RealTasks[i].id = tasksIn[i].id)
        /\ SortedByOrder(injected) = injected

\* three tasks with equal and descending `order` values were renumbered
OrdersIncrease_Witness ==
    /\ InjectionActive
    /\ Len(tasksIn) = 3
    /\ tasksIn[1].order = tasksIn[2].order
    /\ tasksIn[3].order < tasksIn[1].order
    /\ injected[5].order = 5
    /\ injected[1].id = tasksIn[3].id

\* the plans that were assembled and stored with a run
AssembledPlans == Range(createdRuns)

\* the identifiers of an assembled task list are the slugs of position and name
SluggedIds(tasks) ==
    /\ Len(tasks) = Len(rawPlan.tasks)
    /\ \A k \in DOMAIN tasks : tasks[k].id = Slug(k, rawPlan.tasks[k].name)

\* the first task has no predecessor, each later one exactly the task before it
Chained(tasks) ==
    \A k \in DOMAIN tasks :
        tasks[k].contextTasks = IF k = 1 THEN <<>> ELSE <<tasks[k - 1].id>>

\* C24: in every assembled plan, of the session or of POST /runs, the first task
\* has no predecessor and task k > 1 has exactly one, the slug of task k - 1
ChainedPlan ==
    \A p \in AssembledPlans : SluggedIds(p.tasks) /\ Chained(p.tasks)

\* C25: the lead agent of the session is the agent assigned to the first task of
\* the assembled plan, whatever order values the raw plan carries
LeadIsFirstTaskAgent ==
    (via = "ws" /\ apc \in {"create", "done"} /\ plannedTasks # <<>>)
        => (leadId = plannedTasks[1].agent)

\* the entry the relay stores after the complete message
RunCompletedMarker == Entry("system", "system", <<"Run completed.">>)

\* C26: no entry of the transcript has the type thinking, tool_call,
\* tool_result, status or system
NoEphemeralStored ==
    \A i \in DOMAIN messages : messages[i].type \notin EphemeralTypes

\* C26, amended: the only stored entry of such a type is the "Run completed."
\* marker of the session; no executor event of such a type is stored
OnlyMarkerEphemeral ==
    \A i \in DOMAIN messages :
        (messages[i].type \in EphemeralTypes) => (messages[i] = RunCompletedMarker)

\* an executor event of an ephemeral type was streamed, and the relay is back
\* at the event loop
OnlyMarkerEphemeral_Witness ==
    /\ runpc = "exec"
    /\ nevents > 0
    /\ sent[Len(sent)].type = "tool_call"
    /\ \A i \in DOMAIN messages : messages[i].type # "tool_call"

\* C28: while a question is registered the status the session wrote last is
\* awaiting_input, and once the ask has its answer the next step of the Run
\* writes active (or the Run is cancelled) before anything else happens in it
AwaitingWhileAsked ==
    /\ [](DOMAIN pending # {} => convStatus = "awaiting_input")
    /\ [][ (runpc = "ask_active" /\ runpc' # "ask_active")
           => \/ runpc' = "cancelled"
              \/ (convStatus' = "active" /\ runpc' = NextSite(askSite) /\ sent' = sent)
         ]_vars

\* an ask was answered and has returned: the Run is at the step after it
AwaitingWhileAsked_Witness ==
    /\ askSite \in AskSites
    /\ runpc = NextSite(askSite)
    /\ askResult # <<>>
    /\ pending = NoPending
    /\ convStatus = "active"
    /\ \E i \in DOMAIN messages : messages[i].type = "question"

\* the relay is in, or has just left, the summary block
Summarising == runpc \in {"summary"} \cup SummaryResults

\* C27: on a complete event the Run is marked completed and the complete message
\* is sent before the summary block starts, and however the summary block ends
\* the Run stays completed and the relay sends nothing more (no error message)
SummaryNeverFailsRun ==
    /\ [][ (runpc # "summary" /\ runpc' = "summary")
           => /\ runs' = SetLastRun("completed")
              /\ sent' = Append(sent, Out("complete", <<"output">>, AbsentQ))
         ]_vars
    /\ [](Summarising => runs[Len(runs)] = "completed")
    /\ [][ (Summarising /\ runpc' # runpc)
           => /\ runs' = runs
              /\ sent' = sent
              /\ (runpc' = "done" => outcome' = "completed")
         ]_vars

\* the summary could not be read or stored, and the relay has logged it
SummaryNeverFailsRun_Witness ==
    /\ runpc = "summary_raised"
    /\ runs[Len(runs)] = "completed"
    /\ sent[Len(sent)].type = "complete"

\* the index of the most recent "Run completed." marker of a transcript, else 0
LastMarker(msgs) ==
    LET at == {i \in DOMAIN msgs : msgs[i].type = "system" /\ msgs[i].sender = "system"}
    IN IF at = {} THEN 0 ELSE CHOOSE i \in at : \A j \in at : j <= i

\* the user messages after the most recent marker, in transcript order
UserMessagesSince(msgs) ==
    LET after == SubSeq(msgs, LastMarker(msgs) + 1, Len(msgs))
        mine == SelectSeq(after, LAMBDA m : m.sender = "user")
    IN [i \in DOMAIN mine |-> Line("user", mine[i].content)]

\* the entries with content that are neither ephemeral nor questions
Substantive(msgs) ==
    LET kept == SelectSeq(msgs, LAMBDA m : /\ m.content # <<>>
                                           /\ m.type \notin EphemeralTypes
                                           /\ m.type # "question")
    IN [i \in DOMAIN kept |-> Line(kept[i].sender, kept[i].content)]

\* C29: with a rolling summary the context is the summary followed by exactly
\* the user messages after the most recent "Run completed." marker, in order
\* (all of them if there is no marker); without one it is the last 8 entries
\* with content that are neither ephemeral nor questions
ContextCarriesOver ==
    (bpc = "convContext" /\ conv.found)
        => IF conv.lastRunSummary # <<>>
           THEN /\ convContext.summary = conv.lastRunSummary
                /\ convContext.lines = UserMessagesSince(conv.messages)
           ELSE /\ convContext.summary = <<>>
                /\ LET all == Substantive(conv.messages)
                   IN convContext.lines =
                         SubSeq(all, IF Len(all) > 8 THEN Len(all) - 7 ELSE 1, Len(all))

\* a context was convContext from a summary and a transcript with a user message
\* before the marker and another after it
ContextCarriesOver_Witness ==
    /\ bpc = "convContext"
    /\ conv.lastRunSummary # <<>>
    /\ LastMarker(conv.messages) > 1
    /\ conv.messages[1].sender = "user"
    /\ Len(convContext.lines) = 1
    /\ Len(conv.messages) > 8

\* the futures that are done
Done == DOMAIN pending \ Waiting

\* C30: a future is completed once and never again, every question is removed
\* from pending_questions however its future was completed, and the ask returns
\* the result its future was completed with, whatever arrives afterwards
FutureCompletedOnce ==
    /\ [][ /\ \A q \in Done : q \notin DOMAIN pending' \/ pending'[q] = pending[q]
           /\ \A q \in DOMAIN pending \ DOMAIN pending' : q \in Done
           /\ \A q \in DOMAIN pending' \ DOMAIN pending :
                  q = nextQ /\ pending'[q].st = "waiting"
         ]_vars
    /\ [](~RunInFlight => pending = NoPending)
    /\ [][ (runpc = "ask_wait" /\ runpc' = "ask_active")
           => (pending[qid].st = "result" /\ askResult' = pending[qid].val)
         ]_vars

\* a frame with another content was routed while the answered question was
\* still registered
FutureCompletedOnce_Witness ==
    /\ runpc = "ask_wait"
    /\ pending[qid].st = "result"
    /\ rlpc = "recv"
    /\ nrecv = 2
    /\ ShouldPersist(cur.type, cur.content)
    /\ cur.content # pending[qid].val


\* the events the step has yielded
NewEvents == {i \in DOMAIN yielded' : i > Len(yielded)}

\* C31: the executor never emits an agent_message whose content comes from
\* narration lines read while the memory agent was the speaking agent, also when
\* the narration ends while a Final Answer block of the memory agent is being
\* buffered or the speaking agent changes before the block's boundary line.
MemoryLinesNeverEmitted ==
    [][ \A i \in NewEvents :
            (yielded'[i].event = "agent_message" /\ yielded'[i].type = "message")
                => /\ yielded'[i].content = finalLines
                   /\ ~fromMemory
      ]_vars

\* C32: every boundary line (Task Completed, Task Started, Crew Execution, a box
\* corner) read while a Final Answer block is being buffered ends the block, so
\* that nothing buffered before it is carried into a later block. The line that
\* advances task_index is a Task Started line.
BoundaryEndsBlock ==
    [][ (nlines' = nlines + 1 /\ capturingFinal /\ taskIndex' # taskIndex)
        => (~capturingFinal' /\ finalLines' = <<>>)
      ]_vars

\* the futures the step has completed with a result
Resolved ==
    {q \in DOMAIN pending \cap DOMAIN pending' :
        pending[q].st = "waiting" /\ pending'[q].st = "result"}

\* C33: the pending-question map never holds more than one entry, and no frame
\* resolves more than one question.
AtMostOnePending ==
    /\ [](Cardinality(DOMAIN pending) <= 1)
    /\ [][Cardinality(Resolved) <= 1]_vars

\* the second question of a Run is registered, and the first one is gone
AtMostOnePending_Witness ==
    /\ runpc = "ask_wait"
    /\ nextQ >= 2
    /\ qid = nextQ
    /\ DOMAIN pending = {qid}

\* the positions of the Run task before create_run is called
BeforeCreate ==
    {"start", "crew", "skills", "inputs", "plan", "clarify", "build",
     "ask_persist", "ask_status", "ask_wait", "ask_active", "ask_timeout"}

\* C34: a Run document is created, and its identifier added to the Conversation,
\* only by the step that follows a successful plan assembly, with no question
\* pending; an attempt that ends in a timed-out or cancelled ask or in a failed
\* planning leaves no Run document behind.
RunCreatedAfterPlanning ==
    /\ [][ runs' # runs =>
              \/ /\ runpc = "create_run"
                 /\ pending = NoPending
                 /\ runs' = Append(runs, "running")
              \/ Len(runs') = Len(runs) /\ runpc \notin BeforeCreate
         ]_vars
    /\ []( ( \/ runpc = "done" /\ outcome \in {"timeout", "planning_failed"}
             \/ runpc \in BeforeCreate )
           => runs = <<>> )

\* the clarifying question, asked after a successful planning, timed out
RunCreatedAfterPlanning_Witness ==
    /\ runpc = "done"
    /\ outcome = "timeout"
    /\ askSite = "clarify"
    /\ runs = <<>>

\* the terminal messages the client was sent for the Run
TerminalMessages == {i \in DOMAIN sent : sent[i].type \in {"complete", "error"}}

\* C35: for the Run the session executes, the client is sent at most one terminal
\* message (complete or error), also when the execution library raises and the
\* executor yields its error event and re-raises. (The claim says the same of
\* the writes of a terminal status, which the relay makes next to each message.)
OneTerminalMessage == Cardinality(TerminalMessages) <= 1

\* the positions of the line ends in what was written
LineEnds(t) == {i \in DOMAIN t : t[i] = NL}

\* the k-th line of t that a line end terminates
EndedLine(t, k) ==
    LET e == CHOOSE i \in LineEnds(t) : Cardinality({j \in LineEnds(t) : j <= i}) = k
        b == IF k = 1 THEN 0
             ELSE CHOOSE i \in LineEnds(t) : Cardinality({j \in LineEnds(t) : j <= i}) = k - 1
    IN SubSeq(t, b + 1, e - 1)

\* what follows the last line end
LastPart(t) ==
    LET ends == LineEnds(t)
        b == IF ends = {} THEN 0 ELSE CHOOSE i \in ends : \A j \in ends : j <= i
    IN SubSeq(t, b + 1, Len(t))

\* the lines of the text t: those a line end terminates and the partial last one
WrittenLines(t) ==
    [k \in 1..Cardinality(LineEnds(t)) |-> EndedLine(t, k)]
        \o (IF LastPart(t) # <<>> THEN << LastPart(t) >> ELSE <<>>)

IsPrefix(a, b) == Len(a) <= Len(b) /\ a = SubSeq(b, 1, Len(a))

\* C36: no narration line is lost between the worker thread and the parsing
\* loop: the loop dequeues the lines in the order written, and by the time the
\* terminal event is yielded it has dequeued every line the worker wrote, the
\* partial last line included.
NoLineLost ==
    /\ IsPrefix(processed, WrittenLines(written))
    /\ (terminal # "none" => processed = WrittenLines(written))

\* the execution raised after a partial last line, and everything was processed
NoLineLost_Witness ==
    /\ terminal = "error"
    /\ Len(processed) >= 3
    /\ LastPart(written) # <<>>
    /\ <<>> \in Range(processed)

\* C37: once the blocking call of the execution library has returned or raised,
\* the parsing loop eventually exits and the terminal event is eventually yielded.
ExecutorTerminates == (wpc # "kickoff") ~> (lpc = "done" /\ terminal # "none")

\* the execution returned while lines were still on their way to the loop, and
\* the terminal event was yielded
ExecutorTerminates_Witness ==
    /\ terminal = "complete"
    /\ nwrites = MaxWrites
    /\ streamQueue = <<>>
    /\ ready = <<>>

\* C38: in every Plan assembled from a non-empty candidate list, the agent
\* assigned to each task is one of the agents of the Plan.
TaskAgentsInPlan ==
    \A i \in DOMAIN createdRuns :
        Agents # <<>> =>
            \A k \in DOMAIN createdRuns[i].tasks :
                createdRuns[i].tasks[k].agent \in Range(createdRuns[i].agents)

\* the tasks in the sequence build_crew builds them
BuildOrder == SortedByOrder(injected)

\* C39: in the task list build_crew materializes from an assembled plan (chained
\* or not, with or without memory injection), task identifiers are pairwise
\* distinct and every predecessor reference names a task of strictly smaller
\* `order`, which is therefore built before the task that refers to it.
PredecessorsBuiltFirst ==
    (ipc = "out" /\ PlannerOrdered) =>
        /\ \A i, j \in DOMAIN BuildOrder : i # j => BuildOrder[i].id # BuildOrder[j].id
        /\ \A i \in DOMAIN BuildOrder :
              \A k \in DOMAIN BuildOrder[i].contextTasks :
                  \E j \in 1..(i - 1) :
                      /\ BuildOrder[j].id = BuildOrder[i].contextTasks[k]
                      /\ BuildOrder[j].order < BuildOrder[i].order

\* a chained plan of three tasks went through an active injection
PredecessorsBuiltFirst_Witness ==
    /\ InjectionActive
    /\ PlannerOrdered
    /\ Len(tasksIn) = 3
    /\ tasksIn[3].contextTasks = << tasksIn[2].id >>
    /\ Len(BuildOrder) = 5
    /\ Len(BuildOrder[5].contextTasks) = 2

\* the stream requests that have constructed the executor and run the crew
KickedOff == { s \in Streams : spc[s] \in {"exec", "term"} }

\* C40: through GET /runs/{id}/stream a planned run is executed at most once
\* and never while it awaits input: a request kicks the crew off only when
\* awaiting_input is unset and no request has kicked it off before (a request
\* that finished its execution popped the run from planned_runs).
StreamKicksOffOnce ==
    [][ \A s \in Streams :
            (spc[s] = "gen" /\ spc'[s] = "exec")
                => /\ ~awaitingInput
                   /\ plannedRun
                   /\ KickedOff = {} ]_vars

====
